---- MODULE Spec2Model ----
(***************************************************************************)
(* Ingestion and deduplication pipeline of the lead scraper:               *)
(* ParserManager (src/src/parsers/parser_manager.py), the phone            *)
(* normalisation of BaseParser (src/src/parsers/base.py), the item parser  *)
(* of TwoGISParser (src/src/parsers/twogis_parser.py) and the tables of    *)
(* src/src/database/models.py.                                             *)
(*                                                                         *)
(* Encoding of Python values:                                              *)
(*   str        a sequence of one-character strings, <<"a","b">>           *)
(*   None       the empty tuple None == <<>>                               *)
(*   x or None  Some(x) == <<x>>, so '' is Some(<<>>) and differs from None*)
(*   dict       a function whose DOMAIN is the set of keys present         *)
(***************************************************************************)
EXTENDS Integers, Sequences, FiniteSets, TLC

\* ---------------------------------------------------------------- bounds
MaxRuns    == 2   \* invocations of run_all_parsers
MaxParsers == 2   \* length of ParserManager.parsers
MaxBatch   == 2   \* records one search_by_category call returns
MaxRows    == 2   \* ScrapeResult rows written before the sources run dry
MaxTime    == 1   \* ticks of the clock read by datetime.utcnow()
MaxFields  == 3   \* values in a raw payload given to extract_social_links
MaxRequests == 1  \* requests counted per bot user

\* ---------------------------------------------------------------- values
None == <<>>
Some(x) == <<x>>

\* Python truthiness of an optional string: neither None nor ''.
TruthyStr(o) == o # None /\ o[1] # <<>>

\* Python truthiness of an optional number: neither None nor 0.
TruthyNum(o) == o # None /\ o[1] # 0

\* dict.get(key): None when the key is absent.
Get(d, key) == IF key \in DOMAIN d THEN d[key] ELSE None

\* dict.get(key, default)
GetDefault(d, key, default) == IF key \in DOMAIN d THEN d[key] ELSE default

\* ---------------------------------------------------------------- strings
DigitChars == {"0", "1", "2", "3", "4", "5", "6", "7", "8", "9"}

isdigit(c) == c \in DigitChars

startswith(s, prefix) ==
    Len(s) >= Len(prefix) /\ SubSeq(s, 1, Len(prefix)) = prefix

UpperChars == <<"A", "B", "C", "D", "E", "F", "G", "H", "I", "J", "K", "L", "M",
                "N", "O", "P", "Q", "R", "S", "T", "U", "V", "W", "X", "Y", "Z">>
LowerChars == <<"a", "b", "c", "d", "e", "f", "g", "h", "i", "j", "k", "l", "m",
                "n", "o", "p", "q", "r", "s", "t", "u", "v", "w", "x", "y", "z">>

lower_char(c) ==
    IF \E i \in DOMAIN UpperChars : UpperChars[i] = c
    THEN LowerChars[CHOOSE i \in DOMAIN UpperChars : UpperChars[i] = c]
    ELSE c

\* str.lower()
lower(s) == [i \in DOMAIN s |-> lower_char(s[i])]

Whitespace == {" ", "\t", "\n"}

\* str.strip(): drop leading and trailing whitespace.
strip(s) ==
    LET keep == {i \in DOMAIN s : s[i] \notin Whitespace} IN
    IF keep = {} THEN <<>>
    ELSE SubSeq(s, CHOOSE i \in keep : \A j \in keep : i <= j,
                   CHOOSE i \in keep : \A j \in keep : i >= j)

\* sub in s
contains(s, sub) ==
    \E i \in 1..(Len(s) - Len(sub) + 1) : SubSeq(s, i, i + Len(sub) - 1) = sub

\* '|'.join(parts); a None among the parts is a TypeError, reported by the caller.
RECURSIVE join(_)
join(parts) ==
    IF parts = <<>> THEN <<>>
    ELSE IF Len(parts) = 1 THEN parts[1]
    ELSE parts[1] \o <<"|">> \o join(Tail(parts))

\* ---------------------------------------------------------------- BaseParser
\* Mutant of normalize_phone: the nine-digit test comes first.
normalize_phone_nine_first(phone) ==
    IF ~TruthyStr(phone) THEN None
    ELSE LET digits == SelectSeq(phone[1], isdigit) IN
         IF Len(digits) = 9 THEN Some(<<"+", "3", "7", "5">> \o digits)
         ELSE IF startswith(digits, <<"3", "7", "5">>) THEN Some(<<"+">> \o digits)
         ELSE IF startswith(digits, <<"8", "0">>)
              THEN Some(<<"+", "3", "7", "5">> \o SubSeq(digits, 3, Len(digits)))
         ELSE phone

\* Mutant of normalize_phone: nine digits are given the trunk prefix 80.
normalize_phone_trunk_form(phone) ==
    IF ~TruthyStr(phone) THEN None
    ELSE LET digits == SelectSeq(phone[1], isdigit) IN
         IF startswith(digits, <<"3", "7", "5">>) THEN Some(<<"+">> \o digits)
         ELSE IF startswith(digits, <<"8", "0">>)
              THEN Some(<<"+", "3", "7", "5">> \o SubSeq(digits, 3, Len(digits)))
         ELSE IF Len(digits) = 9 THEN Some(<<"8", "0">> \o digits)
         ELSE phone

\* BaseParser.normalize_phone, phone an optional string.
normalize_phone(phone) ==
    IF ~TruthyStr(phone) THEN None
    ELSE LET digits == SelectSeq(phone[1], isdigit) IN
         IF startswith(digits, <<"3", "7", "5">>) THEN Some(<<"+">> \o digits)
         ELSE IF startswith(digits, <<"8", "0">>)
              THEN Some(<<"+", "3", "7", "5">> \o SubSeq(digits, 3, Len(digits)))
         ELSE IF Len(digits) = 9 THEN Some(<<"+", "3", "7", "5">> \o digits)
         ELSE phone

\* The Latin entries of belarus_cities; the Cyrillic ones cannot match the
\* Latin city names the model feeds in.
belarus_cities ==
    { <<"m","i","n","s","k">>, <<"g","o","m","e","l">>, <<"m","o","g","i","l","e","v">>,
      <<"v","i","t","e","b","s","k">>, <<"g","r","o","d","n","o">>, <<"b","r","e","s","t">> }

\* BaseParser.is_belarus_city, city an optional string.
is_belarus_city(city) ==
    IF ~TruthyStr(city) THEN FALSE
    ELSE \E c \in belarus_cities : contains(lower(city[1]), c)

\* Put(d, key, v): d[key] = v on a dict.
Put(d, key, v) == [x \in (DOMAIN d) \cup {key} |-> IF x = key THEN v ELSE d[x]]

\* ---------------------------------------------------------------- TwoGISParser
SOURCE_2GIS == <<"2", "g", "i", "s">>

\* The loop over contact_groups/contacts of _parse_item: the first phone is
\* kept (normalised), a later email or website replaces an earlier one.
RECURSIVE parse_contacts(_, _)
parse_contacts(company, contacts) ==
    IF contacts = <<>> THEN company
    ELSE LET contact == contacts[1]
             next == IF contact.type = "phone"
                     THEN IF ~TruthyStr(Get(company, "phone"))
                          THEN Put(company, "phone", normalize_phone(contact.value))
                          ELSE company
                     ELSE IF contact.type = "email"
                          THEN Put(company, "email", contact.value)
                     ELSE IF contact.type = "website"
                          THEN Put(company, "website", contact.value)
                     ELSE company
         IN parse_contacts(next, Tail(contacts))

\* TwoGISParser._parse_item: the company dict of a raw API item, or None when
\* the item's city is not a city of Belarus.
_parse_item(item) ==
    LET c0 == [name |-> Get(item, "name"), source |-> Some(SOURCE_2GIS),
               source_id |-> Get(item, "id")]
        c1 == IF "address" \in DOMAIN item
              THEN LET a == Put(c0, "address", item["address"].name) IN
                   IF item["address"].city # None
                   THEN Put(a, "city", item["address"].city) ELSE a
              ELSE c0
        c2 == IF "contacts" \in DOMAIN item
              THEN parse_contacts(c1, item["contacts"]) ELSE c1
        c3 == IF "reviews" \in DOMAIN item
              THEN Put(Put(c2, "rating", item["reviews"].rating),
                       "reviews_count", item["reviews"].total)
              ELSE c2
    IN IF TruthyStr(Get(c3, "city")) /\ is_belarus_city(c3["city"])
       THEN Some(c3) ELSE None

\* ---------------------------------------------------------------- ParserManager
\* hashlib.md5(key.encode()).hexdigest(): the digest is not computed; it is
\* modelled as a collision-free tagged copy of the key.
md5_hexdigest(key) == <<"md5:">> \o key

\* Mutant of key_parts_of: the address is appended to the phone.
key_parts_with_address(company_data) ==
    LET phone == Get(company_data, "phone")
        name == Get(company_data, "name")
        address == Get(company_data, "address")
        parts == (IF TruthyStr(phone) THEN <<phone>>
                  ELSE IF TruthyStr(name) THEN <<Some(strip(lower(name[1])))>> ELSE <<>>)
                 \o (IF TruthyStr(address)
                     THEN <<Some(strip(lower(address[1])))>> ELSE <<>>)
    IN IF parts = <<>>
       THEN <<GetDefault(company_data, "source", Some(<<>>)),
              GetDefault(company_data, "source_id", Some(<<>>))>>
       ELSE parts

\* Mutant of key_parts_of: name and address are preferred to the phone.
key_parts_name_first(company_data) ==
    LET phone == Get(company_data, "phone")
        name == Get(company_data, "name")
        address == Get(company_data, "address")
        parts == IF TruthyStr(name) \/ TruthyStr(address)
                 THEN (IF TruthyStr(name) THEN <<Some(strip(lower(name[1])))>> ELSE <<>>)
                      \o (IF TruthyStr(address)
                          THEN <<Some(strip(lower(address[1])))>> ELSE <<>>)
                 ELSE IF TruthyStr(phone) THEN <<phone>> ELSE <<>>
    IN IF parts = <<>>
       THEN <<GetDefault(company_data, "source", Some(<<>>)),
              GetDefault(company_data, "source_id", Some(<<>>))>>
       ELSE parts

\* The list key_parts of _generate_dedup_hash.
key_parts_of(company_data) ==
    LET phone == Get(company_data, "phone")
        name == Get(company_data, "name")
        address == Get(company_data, "address")
        parts == IF TruthyStr(phone) THEN <<phone>>
                 ELSE (IF TruthyStr(name) THEN <<Some(strip(lower(name[1])))>> ELSE <<>>)
                      \o (IF TruthyStr(address)
                          THEN <<Some(strip(lower(address[1])))>> ELSE <<>>)
    IN IF parts = <<>>
       THEN <<GetDefault(company_data, "source", Some(<<>>)),
              GetDefault(company_data, "source_id", Some(<<>>))>>
       ELSE parts

\* ParserManager._generate_dedup_hash: ok = FALSE when '|'.join meets a None
\* (a 'source' or 'source_id' key present with value None) and raises TypeError.
_generate_dedup_hash(company_data) ==
    LET parts == key_parts_of(company_data) IN
    IF \E i \in DOMAIN parts : parts[i] = None
    THEN [ok |-> FALSE, hash |-> <<>>]
    ELSE [ok |-> TRUE,
          hash |-> md5_hexdigest(join([i \in DOMAIN parts |-> parts[i][1]]))]

\* Mutant of _update_company: the `and not company.<field>` tests are missing,
\* so an incoming value replaces the stored one.
_update_company_overwrite(company, new_data, now) ==
    LET fill(field) ==
            IF TruthyStr(Get(new_data, field)) THEN new_data[field] ELSE company[field]
        fresh(field) ==
            IF TruthyNum(Get(new_data, field)) THEN new_data[field] ELSE company[field]
    IN [company EXCEPT !.phone = fill("phone"),
                       !.email = fill("email"),
                       !.website = fill("website"),
                       !.instagram = fill("instagram"),
                       !.rating = fresh("rating"),
                       !.reviews_count = fresh("reviews_count"),
                       !.last_scraped_at = now,
                       !.updated_at = now]

\* ParserManager._update_company on a Company row.
_update_company(company, new_data, now) ==
    LET fill(field) ==
            IF TruthyStr(Get(new_data, field)) /\ ~TruthyStr(company[field])
            THEN new_data[field] ELSE company[field]
        fresh(field) ==
            IF TruthyNum(Get(new_data, field)) THEN new_data[field] ELSE company[field]
    IN [company EXCEPT !.phone = fill("phone"),
                       !.email = fill("email"),
                       !.website = fill("website"),
                       !.instagram = fill("instagram"),
                       !.rating = fresh("rating"),
                       !.reviews_count = fresh("reviews_count"),
                       !.last_scraped_at = now,
                       !.updated_at = now]

\* ---------------------------------------------------------------- tables
\* The rows seed_categories() inserts: name -> id.
CategoryTable ==
    ("auto_service" :> 1) @@ ("handyman" :> 2) @@ ("cleaning" :> 3) @@ ("moving" :> 4)
    @@ ("education" :> 5) @@ ("fitness" :> 6) @@ ("photo_video" :> 7) @@ ("legal" :> 8)
    @@ ("psychology" :> 9) @@ ("tattoo" :> 10)

\* Mutant of category_of: a name without a row falls back to the first category.
category_of_or_first(category_name) ==
    IF category_name \in DOMAIN CategoryTable
    THEN Some(CategoryTable[category_name]) ELSE Some(1)

\* session.query(Category).filter(Category.name == category_name).first()
category_of(category_name) ==
    IF category_name \in DOMAIN CategoryTable
    THEN Some(CategoryTable[category_name]) ELSE None

\* A database: three tables, each a sequence of rows whose index is the row id.
DB(cs, rs, ss) == [companies |-> cs, scrape_results |-> rs, scrape_sessions |-> ss]

\* ParserManager._create_scrape_session: the table with the new row appended;
\* the new row's id is the table's length.
_create_scrape_session(scrape_sessions, source, now) ==
    Append(scrape_sessions,
           [source |-> source, status |-> "started",
            total_scraped |-> 0, new_companies |-> 0, updated_companies |-> 0,
            errors_count |-> 0, started_at |-> now, completed_at |-> None,
            duration_seconds |-> None, error_message |-> None])

\* Mutant of _complete_scrape_session: the update is not restricted to the
\* session's id and rewrites every row.
_complete_all_sessions(scrape_sessions, session_id, status, error_message, now) ==
    [i \in DOMAIN scrape_sessions |->
        [scrape_sessions[i] EXCEPT
            !.status = status,
            !.completed_at = Some(now),
            !.error_message = error_message,
            !.duration_seconds = Some(now - scrape_sessions[i].started_at)]]

\* ParserManager._complete_scrape_session
_complete_scrape_session(scrape_sessions, session_id, status, error_message, now) ==
    IF session_id \in DOMAIN scrape_sessions
    THEN LET scrape_session == scrape_sessions[session_id] IN
         [scrape_sessions EXCEPT ![session_id] =
            [scrape_session EXCEPT !.status = status,
                                   !.completed_at = Some(now),
                                   !.error_message = error_message,
                                   !.duration_seconds = Some(now - scrape_session.started_at)]]
    ELSE scrape_sessions

\* Mutant of companies_with_hash: the filter compares the wrong column.
companies_with_source_id(companies, dedup_hash) ==
    {i \in DOMAIN companies : companies[i].source_id = Some(dedup_hash)}

\* session.query(Company).filter(Company.dedup_hash == dedup_hash): the ids found.
companies_with_hash(companies, dedup_hash) ==
    {i \in DOMAIN companies : companies[i].dedup_hash = dedup_hash}

\* Mutant of new_company: the constructor call leaves dedup_hash out.
new_company_without_hash(company_data, category_id, dedup_hash, now) ==
    [name |-> Get(company_data, "name"),
     address |-> Get(company_data, "address"),
     phone |-> Get(company_data, "phone"),
     email |-> Get(company_data, "email"),
     website |-> Get(company_data, "website"),
     instagram |-> Get(company_data, "instagram"),
     category_id |-> category_id,
     city |-> Get(company_data, "city"),
     rating |-> Get(company_data, "rating"),
     reviews_count |-> GetDefault(company_data, "reviews_count", Some(0)),
     source |-> Get(company_data, "source"),
     source_id |-> Get(company_data, "source_id"),
     dedup_hash |-> None,
     created_at |-> now,
     updated_at |-> now,
     last_scraped_at |-> now,
     is_active |-> TRUE]

\* The Company(...) constructor call of _save_company.
new_company(company_data, category_id, dedup_hash, now) ==
    [name |-> Get(company_data, "name"),
     address |-> Get(company_data, "address"),
     phone |-> Get(company_data, "phone"),
     email |-> Get(company_data, "email"),
     website |-> Get(company_data, "website"),
     instagram |-> Get(company_data, "instagram"),
     category_id |-> category_id,
     city |-> Get(company_data, "city"),
     rating |-> Get(company_data, "rating"),
     reviews_count |-> GetDefault(company_data, "reviews_count", Some(0)),
     source |-> Get(company_data, "source"),
     source_id |-> Get(company_data, "source_id"),
     dedup_hash |-> dedup_hash,
     created_at |-> now,
     updated_at |-> now,
     last_scraped_at |-> now,
     is_active |-> TRUE]

\* The flush of an updated Company: the ORM writes the attributes whose value
\* differs from the one it loaded (loaded) and leaves the others as stored.
flush_update(stored, loaded, updated) ==
    [f \in DOMAIN stored |-> IF updated[f] # loaded[f] THEN updated[f] ELSE stored[f]]

\* Mutant of update_statistics: total_scraped is counted in the created branch only.
update_statistics_created_only(scrape_session, action) ==
    [scrape_session EXCEPT
        !.total_scraped = IF action = "created" THEN @ + 1 ELSE @,
        !.new_companies = IF action = "created" THEN @ + 1 ELSE @,
        !.updated_companies = IF action = "updated" THEN @ + 1 ELSE @]

\* "Update session statistics" of _save_company, on the session's row.
update_statistics(scrape_session, action) ==
    [scrape_session EXCEPT
        !.total_scraped = @ + 1,
        !.new_companies = IF action = "created" THEN @ + 1 ELSE @,
        !.updated_companies = IF action = "updated" THEN @ + 1 ELSE @]

\* Mutant of merge_write: an update moves the company to the category of the
\* record that triggered it.
merge_write_recategorised(db, company_data, category_id, dedup_hash, existing, loaded, session_id, now) ==
    LET creating == existing = 0
        fails == (creating /\ Get(company_data, "name") = None)
                 \/ session_id \notin DOMAIN db.scrape_sessions
        companies2 ==
            IF creating
            THEN Append(db.companies, new_company(company_data, category_id, dedup_hash, now))
            ELSE [db.companies EXCEPT ![existing] =
                    [flush_update(@, loaded, _update_company(loaded, company_data, now))
                        EXCEPT !.category_id = category_id]]
        company_id == IF creating THEN Len(db.companies) + 1 ELSE existing
        action == IF creating THEN "created" ELSE "updated"
        results2 == Append(db.scrape_results,
                           [session_id |-> session_id, company_id |-> company_id,
                            action |-> action])
        sessions2 ==
            [db.scrape_sessions EXCEPT ![session_id] = update_statistics(@, action)]
    IN IF fails THEN [raised |-> TRUE, db |-> db]
       ELSE [raised |-> FALSE, db |-> DB(companies2, results2, sessions2)]

\* Mutant of merge_write: an exception leaves the Lead's insert or update in
\* the store; only the audit row and the counters are lost.
merge_write_partial(db, company_data, category_id, dedup_hash, existing, loaded, session_id, now) ==
    LET creating == existing = 0
        name_missing == creating /\ Get(company_data, "name") = None
        fails == name_missing \/ session_id \notin DOMAIN db.scrape_sessions
        companies2 ==
            IF creating
            THEN Append(db.companies, new_company(company_data, category_id, dedup_hash, now))
            ELSE [db.companies EXCEPT ![existing] =
                    flush_update(@, loaded, _update_company(loaded, company_data, now))]
        company_id == IF creating THEN Len(db.companies) + 1 ELSE existing
        action == IF creating THEN "created" ELSE "updated"
        results2 == Append(db.scrape_results,
                           [session_id |-> session_id, company_id |-> company_id,
                            action |-> action])
        sessions2 ==
            [db.scrape_sessions EXCEPT ![session_id] = update_statistics(@, action)]
    IN IF name_missing THEN [raised |-> TRUE, db |-> db]
       ELSE IF fails
       THEN [raised |-> TRUE, db |-> DB(companies2, db.scrape_results, db.scrape_sessions)]
       ELSE [raised |-> FALSE, db |-> DB(companies2, results2, sessions2)]

\* The part of _save_company after the lookup of `existing`: existing is 0 when
\* the lookup found no row, else the id of the row found, with `loaded` the row
\* as the lookup read it. raised = TRUE is an exception leaving the with block:
\* get_db_session rolls the transaction back and the database is as before.
merge_write(db, company_data, category_id, dedup_hash, existing, loaded, session_id, now) ==
    LET creating == existing = 0
        \* Company.name is nullable=False, scrape_results.session_id is a foreign key
        fails == (creating /\ Get(company_data, "name") = None)
                 \/ session_id \notin DOMAIN db.scrape_sessions
        companies2 ==
            IF creating
            THEN Append(db.companies, new_company(company_data, category_id, dedup_hash, now))
            ELSE [db.companies EXCEPT ![existing] =
                    flush_update(@, loaded, _update_company(loaded, company_data, now))]
        company_id == IF creating THEN Len(db.companies) + 1 ELSE existing
        action == IF creating THEN "created" ELSE "updated"
        results2 == Append(db.scrape_results,
                           [session_id |-> session_id, company_id |-> company_id,
                            action |-> action])
        sessions2 ==
            [db.scrape_sessions EXCEPT ![session_id] = update_statistics(@, action)]
    IN IF fails THEN [raised |-> TRUE, db |-> db]
       ELSE [raised |-> FALSE, db |-> DB(companies2, results2, sessions2)]

\* The row .first() returns among those with the hash: the lowest id.
first_with_hash(companies, dedup_hash) ==
    LET found == companies_with_hash(companies, dedup_hash) IN
    IF found = {} THEN 0 ELSE CHOOSE i \in found : \A j \in found : i <= j

\* ParserManager._save_company as one transaction.
_save_company(db, company_data, category_name, session_id, now) ==
    LET category == category_of(category_name)
        h == _generate_dedup_hash(company_data)
        existing == first_with_hash(db.companies, h.hash)
    IN IF category = None THEN [raised |-> FALSE, db |-> db]
       ELSE IF ~h.ok THEN [raised |-> TRUE, db |-> db]
       ELSE merge_write(db, company_data, category[1], h.hash, existing,
                        IF existing = 0 THEN None ELSE db.companies[existing],
                        session_id, now)

\* The loop `for company_data in companies` of _run_parser: the records are
\* saved in order and the first exception abandons the rest of the batch.
RECURSIVE save_batch(_, _, _, _, _)
save_batch(db, companies, category_name, session_id, now) ==
    IF companies = <<>> THEN [raised |-> FALSE, db |-> db]
    ELSE LET r == _save_company(db, companies[1], category_name, session_id, now) IN
         IF r.raised THEN r
         ELSE save_batch(r.db, Tail(companies), category_name, session_id, now)

\* ---------------------------------------------------------------- inputs
P_TRUNK == <<"8", "0", "2", "9", "1", "2", "3", "4", "5", "6", "7">>
P_INTL  == <<"+", "3", "7", "5", " ", "2", "9", " ", "1", "2", "3", "-", "4", "5", "-", "6", "7">>
P_LOCAL == <<"2", "9", "1", "2", "3", "4", "5", "6", "7">>
P_SHORT == <<"1", "2", "3">>
P_NORM  == <<"+", "3", "7", "5", "2", "9", "1", "2", "3", "4", "5", "6", "7">>

MINSK  == <<"M", "i", "n", "s", "k">>
WARSAW == <<"W", "a", "r", "s", "a", "w">>

SOURCE_MOCK == <<"m", "o", "c", "k", "_", "t", "e", "s", "t">>

\* Raw items of the 2GIS API, as _parse_item reads them.
TwoGisItems ==
    { [name |-> Some(<<"C", "o">>), id |-> Some(<<"1">>),
       address |-> [name |-> Some(<<"A">>), city |-> Some(MINSK)],
       contacts |-> <<[type |-> "phone", value |-> Some(P_TRUNK)],
                      [type |-> "website", value |-> Some(<<"w", "1">>)]>>,
       reviews |-> [rating |-> Some(4), total |-> Some(10)]],
      [name |-> None, id |-> Some(<<"2">>),
       address |-> [name |-> Some(<<"B">>), city |-> Some(MINSK)],
       contacts |-> <<[type |-> "phone", value |-> Some(P_INTL)],
                      [type |-> "email", value |-> Some(<<"e", "1">>)]>>],
      [name |-> Some(<<>>), id |-> Some(<<"3">>),
       address |-> [name |-> None, city |-> Some(MINSK)]],
      [name |-> Some(<<"P", "l">>), id |-> Some(<<"4">>),
       address |-> [name |-> Some(<<"C">>), city |-> Some(WARSAW)],
       contacts |-> <<[type |-> "phone", value |-> Some(P_LOCAL)]>>] }

\* What TwoGISParser._search_items collects: the items _parse_item keeps.
TwoGisCompanies ==
    {_parse_item(item)[1] : item \in {i \in TwoGisItems : _parse_item(i) # None}}

\* Company dicts of an adapter that builds them itself (MockParser's shape).
MockCompanies ==
    { [name |-> Some(<<"C", "o", " ">>), address |-> Some(<<"b">>),
       phone |-> Some(P_NORM), email |-> Some(<<"e", "2">>),
       instagram |-> Some(<<"@", "c", "o">>), rating |-> Some(0),
       reviews_count |-> Some(50), source |-> Some(SOURCE_MOCK),
       source_id |-> Some(<<"m", "1">>)],
      [name |-> Some(<<"C", "O">>), address |-> Some(<<"A", " ">>),
       rating |-> Some(5), source |-> Some(SOURCE_MOCK),
       source_id |-> Some(<<"m", "2">>)],
      [name |-> Some(<<"c", "o">>), address |-> Some(<<"a">>),
       email |-> Some(<<"e", "3">>), website |-> Some(<<"w", "3">>),
       source |-> Some(SOURCE_MOCK)] }

\* Category arguments of run_all_parsers; "pets" is a niche ENABLED_NICHES can
\* name that has no Category row.
CategoryLists ==
    { <<"auto_service", "handyman">>, <<"auto_service", "pets">> }

CategoryNames == {"auto_service", "handyman", "pets"}

SourceNames == {SOURCE_2GIS, SOURCE_MOCK}

\* The company dicts the adapters return.
AllCompanies == TwoGisCompanies \cup MockCompanies

\* The category names that have a row.
KnownCategories == {c \in CategoryNames : category_of(c) # None}

\* Sequences over S of length at most n.
SeqUpTo(S, n) == UNION {[1..k -> S] : k \in 0..n}

\* ---------------------------------------------------------------- state
VARIABLES
    parsers,          \* ParserManager.parsers: the source_name of each registered parser
    companies,        \* table companies
    scrape_results,   \* table scrape_results
    scrape_sessions,  \* table scrape_sessions
    now,              \* datetime.utcnow()
    runs,             \* the invocations of run_all_parsers: position and locals
    sources,          \* the sites behind the adapters: which are down, which are scripted
    txn,              \* per run, the transaction a _save_company has open
    probe             \* raw items under the parser and the key resolver, with their results

vars == <<parsers, companies, scrape_results, scrape_sessions, now, runs, sources, txn,
          probe>>

Runs == 1..MaxRuns

db_now == DB(companies, scrape_results, scrape_sessions)

\* calls: the search_by_category calls made so far, <<index in parsers, category>>.
IdleRun == [pc |-> "idle", categories |-> <<>>, session_id |-> 0,
            parser |-> 0, category |-> 0, calls |-> {}]

\* What one search_by_category call can do: raise, or return a list of dicts.
Raise == [raises |-> TRUE, companies |-> <<>>]
Return(cs) == [raises |-> FALSE, companies |-> cs]

\* The outcomes of parser source_name for category_name. A source that is down
\* for the category raises on every call; a scripted source returns its fixed
\* list; TwoGISParser.search_by_category catches its own errors and returns
\* what it collected; any other adapter may also raise.
Outcomes(source_name, category_name) ==
    LET room == IF MaxRows - Len(scrape_results) < MaxBatch
                THEN (IF MaxRows > Len(scrape_results)
                      THEN MaxRows - Len(scrape_results) ELSE 0)
                ELSE MaxBatch
    IN IF <<source_name, category_name>> \in sources.down THEN {Raise}
       ELSE IF source_name \in DOMAIN sources.fixed
            THEN {Return(sources.fixed[source_name])}
       ELSE IF source_name = SOURCE_2GIS
            THEN {Return(cs) : cs \in SeqUpTo(TwoGisCompanies, room)}
       ELSE {Raise} \cup {Return(cs) : cs \in SeqUpTo(MockCompanies, room)}

\* str(e) of the error a failed commit raises.
DB_ERROR == <<"d", "b">>

\* ---------------------------------------------------------------- actions
\* ParserManager.register_parser
register_parser(source_name) ==
    /\ Len(parsers) < MaxParsers
    /\ \A q \in Runs : runs[q].pc # "awaiting"
    /\ parsers' = Append(parsers, source_name)
    /\ UNCHANGED <<companies, scrape_results, scrape_sessions, now, runs, sources, txn, probe>>

\* Mutant of finish_run: the run returns without marking its session.
finish_run_unmarked(p, run, db, commit_ok, retry_ok) ==
    /\ companies' = db.companies
    /\ scrape_results' = db.scrape_results
    /\ scrape_sessions' = db.scrape_sessions
    /\ runs' = [runs EXCEPT ![p] = [run EXCEPT !.pc = "returned"]]

\* The end of run_all_parsers, lines 49-54: the session is marked completed;
\* if that raises (commit_ok = FALSE) the handler marks the session
\* failed, and if that raises too (retry_ok = FALSE) the error reaches the caller.
finish_run(p, run, db, commit_ok, retry_ok) ==
    /\ companies' = db.companies
    /\ scrape_results' = db.scrape_results
    /\ IF commit_ok
       THEN /\ scrape_sessions' = _complete_scrape_session(
                    db.scrape_sessions, run.session_id, "completed", None, now)
            /\ runs' = [runs EXCEPT ![p] = [run EXCEPT !.pc = "returned"]]
       ELSE IF retry_ok
            THEN /\ scrape_sessions' = _complete_scrape_session(
                         db.scrape_sessions, run.session_id, "failed", Some(DB_ERROR), now)
                 /\ runs' = [runs EXCEPT ![p] = [run EXCEPT !.pc = "returned"]]
            ELSE /\ scrape_sessions' = db.scrape_sessions
                 /\ runs' = [runs EXCEPT ![p] = [run EXCEPT !.pc = "raised"]]

\* The loops `for parser in self.parsers` and `for category in categories` move
\* on from the position of `run` to the next search_by_category call, where the
\* coroutine is suspended, or to the end of the run.
continue_run(p, run, db, commit_ok, retry_ok) ==
    IF run.parser >= 1 /\ run.category < Len(run.categories)
    THEN /\ runs' = [runs EXCEPT ![p] =
                        [run EXCEPT !.pc = "awaiting", !.category = @ + 1,
                                    !.calls = @ \cup {<<run.parser, run.categories[run.category + 1]>>}]]
         /\ companies' = db.companies
         /\ scrape_results' = db.scrape_results
         /\ scrape_sessions' = db.scrape_sessions
    ELSE IF run.parser < Len(parsers)
    THEN /\ runs' = [runs EXCEPT ![p] =
                        [run EXCEPT !.pc = "awaiting", !.parser = @ + 1, !.category = 1,
                                    !.calls = @ \cup {<<run.parser + 1, run.categories[1]>>}]]
         /\ companies' = db.companies
         /\ scrape_results' = db.scrape_results
         /\ scrape_sessions' = db.scrape_sessions
    ELSE finish_run(p, run, db, commit_ok, retry_ok)

\* ParserManager.run_all_parsers up to its first await: the session is created
\* (create_ok = FALSE: _create_scrape_session raises and the error reaches the
\* caller) and the first adapter is called.
run_all_parsers(p, categories, create_ok, commit_ok, retry_ok) ==
    /\ runs[p].pc = "idle"
    /\ \A q \in Runs : q < p => runs[q].pc \in {"returned", "raised"}
    /\ IF create_ok
       THEN LET sessions2 == _create_scrape_session(scrape_sessions, "all_sources", now)
                run == [runs[p] EXCEPT !.categories = categories,
                                       !.session_id = Len(sessions2)]
            IN continue_run(p, run, DB(companies, scrape_results, sessions2),
                            commit_ok, retry_ok)
       ELSE /\ runs' = [runs EXCEPT ![p].pc = "raised"]
            /\ UNCHANGED <<companies, scrape_results, scrape_sessions>>
    /\ UNCHANGED <<parsers, now, sources, txn, probe>>

\* Mutant of _run_parser: the try/except around the category is missing, so
\* an error of the adapter or of a save ends the run.
_run_parser_uncaught(p, outcome, commit_ok, retry_ok) ==
    LET run == runs[p]
        category == run.categories[run.category]
        saved == IF outcome.raises THEN [raised |-> TRUE, db |-> db_now]
                 ELSE save_batch(db_now, outcome.companies, category, run.session_id, now)
    IN /\ run.pc = "awaiting"
       /\ IF saved.raised
          THEN /\ runs' = [runs EXCEPT ![p].pc = "raised"]
               /\ companies' = saved.db.companies
               /\ scrape_results' = saved.db.scrape_results
               /\ scrape_sessions' = saved.db.scrape_sessions
          ELSE continue_run(p, run, saved.db, commit_ok, retry_ok)
       /\ UNCHANGED <<parsers, now, sources, txn, probe>>

\* ParserManager._run_parser resumed by the adapter: search_by_category raises
\* or returns, the batch is saved (an exception is caught and logged) and the
\* loops move on.
_run_parser(p, outcome, commit_ok, retry_ok) ==
    LET run == runs[p]
        category == run.categories[run.category]
        saved == IF outcome.raises THEN [raised |-> TRUE, db |-> db_now]
                 ELSE save_batch(db_now, outcome.companies, category, run.session_id, now)
    IN /\ run.pc = "awaiting"
       /\ continue_run(p, run, saved.db, commit_ok, retry_ok)
       /\ UNCHANGED <<parsers, now, sources, txn, probe>>

\* Time passes.
Tick ==
    /\ now < MaxTime
    /\ now' = now + 1
    /\ UNCHANGED <<parsers, companies, scrape_results, scrape_sessions, runs, sources, txn,
                   probe>>

\* ---------------------------------------------------------------- the runs
\* One process (app.py): the scheduler starts run_daily_scraping with at most
\* one instance at a time (APScheduler's max_instances default), so a run of
\* run_all_parsers starts after the previous one has ended, and parsers are
\* registered before a run, never during one.
Init ==
    /\ parsers = <<>>
    /\ companies = <<>>
    /\ scrape_results = <<>>
    /\ scrape_sessions = <<>>
    /\ now = 0
    /\ runs = [p \in Runs |-> IdleRun]
    /\ \E down \in {{}, {<<SOURCE_MOCK, "auto_service">>}} :
          sources = [down |-> down, fixed |-> <<>>]
    /\ txn = [p \in Runs |-> None]
    /\ probe = None

\* A run starts; Commits is the set of outcomes a commit of the session's
\* row can have (TRUE: it succeeds, FALSE: it raises).
StartRunWith(Commits) ==
    \E p \in Runs, categories \in CategoryLists, create_ok, commit_ok, retry_ok \in Commits :
        run_all_parsers(p, categories, create_ok, commit_ok, retry_ok)

\* The adapter a run awaits answers.
AdapterAnswersWith(Commits) ==
    \E p \in Runs, commit_ok, retry_ok \in Commits :
        /\ runs[p].pc = "awaiting"
        /\ \E outcome \in Outcomes(parsers[runs[p].parser],
                                   runs[p].categories[runs[p].category]) :
              _run_parser(p, outcome, commit_ok, retry_ok)

Register == \E source_name \in SourceNames : register_parser(source_name)

\* The runs against a database whose commits succeed.
StartRun == StartRunWith({TRUE})
AdapterAnswers == AdapterAnswersWith({TRUE})
Next == Register \/ StartRun \/ AdapterAnswers \/ Tick
Spec == Init /\ [][Next]_vars

\* The runs against a database that can fail when a session's row is
\* committed (_create_scrape_session, _complete_scrape_session).
StartRunDb == StartRunWith(BOOLEAN)
AdapterAnswersDb == AdapterAnswersWith(BOOLEAN)
NextDb == Register \/ StartRunDb \/ AdapterAnswersDb \/ Tick
SpecDb == Init /\ [][NextDb]_vars

\* ---------------------------------------------------------------- one run over two adapters
E1 == <<"e", "1">>

COMPANY_X == <<"X">>

\* The raw 2GIS item of Company X: phone as the site formats it, address A,
\* and an email contact when email # None.
TwoGisItemX(raw_phone, email) ==
    [name |-> Some(COMPANY_X), id |-> Some(<<"7">>),
     address |-> [name |-> Some(<<"A">>), city |-> Some(MINSK)],
     contacts |-> <<[type |-> "phone", value |-> Some(raw_phone)]>>
                  \o (IF email = None THEN <<>> ELSE <<[type |-> "email", value |-> email[1]]>>)]

\* The dict of Company X from an adapter that builds it itself: address B, and
\* the key 'email' left out when email = None.
MockCompanyX(phone, email) ==
    LET company == [name |-> Some(COMPANY_X), address |-> Some(<<"B">>),
                    phone |-> Some(phone), source |-> Some(SOURCE_MOCK),
                    source_id |-> Some(<<"m", "7">>)]
    IN IF email = None THEN company ELSE Put(company, "email", email[1])

\* The ways a record can lack an email: no value at all, the value None, the
\* empty string.
NoEmail == {None, Some(None), Some(Some(<<>>))}

\* The phone of Company X as the two sites give it: <<2GIS, other adapter>>.
PhonesX == {<<P_TRUNK, P_NORM>>, <<P_INTL, P_NORM>>, <<P_SHORT, P_SHORT>>}

\* Both adapters are registered, in either order, each answers with its one
\* record of Company X, and the store is empty.
InitE2E ==
    /\ \E first \in SourceNames :
          parsers = <<first, CHOOSE s \in SourceNames : s # first>>
    /\ companies = <<>>
    /\ scrape_results = <<>>
    /\ scrape_sessions = <<>>
    /\ now = 0
    /\ runs = [p \in Runs |-> IdleRun]
    /\ \E phones \in PhonesX, missing \in NoEmail, supplier \in SourceNames :
          LET email(s) == IF s = supplier THEN Some(Some(E1)) ELSE missing IN
          sources = [down |-> {},
                     fixed |-> (SOURCE_2GIS :>
                                   <<_parse_item(TwoGisItemX(phones[1], email(SOURCE_2GIS)))[1]>>)
                               @@ (SOURCE_MOCK :>
                                   <<MockCompanyX(phones[2], email(SOURCE_MOCK))>>)]
    /\ txn = [p \in Runs |-> None]
    /\ probe = None

\* The one run, over a category that has a row.
StartRunE2E == run_all_parsers(1, <<"auto_service">>, TRUE, TRUE, TRUE)

NextE2E == StartRunE2E \/ AdapterAnswers \/ Tick
SpecE2E == InitE2E /\ [][NextE2E]_vars

\* ---------------------------------------------------------------- from raw record to key
SOURCE_YANDEX == <<"y", "a", "n", "d", "e", "x", "_", "m", "a", "p", "s">>

\* The loop over phone_data of YandexMapsParser._parse_company.
RECURSIVE yandex_phones(_)
yandex_phones(phone_data) ==
    IF phone_data = <<>> THEN <<>>
    ELSE LET formatted == Get(phone_data[1], "formatted")
             normalized == normalize_phone(formatted)
         IN (IF TruthyStr(formatted) /\ TruthyStr(normalized) THEN <<normalized>> ELSE <<>>)
            \o yandex_phones(Tail(phone_data))

\* YandexMapsParser._parse_company on a feature whose properties and
\* CompanyMetaData are the fields name, address, Phones and url, none of them
\* a social link (extract_social_links finds nothing): the company dict, or
\* None for a feature without a name.
_parse_company(feature, city) ==
    LET name == strip(GetDefault(feature, "name", Some(<<>>))[1])
        phones == yandex_phones(GetDefault(feature, "Phones", <<>>))
    IN IF name = <<>> THEN None
       ELSE Some([name |-> Some(name),
                  address |-> GetDefault(feature, "address", Some(<<>>)),
                  city |-> Some(city),
                  phone |-> IF phones # <<>> THEN phones[1] ELSE None,
                  website |-> Get(feature, "url"),
                  source |-> Some(SOURCE_YANDEX),
                  instagram |-> None])

\* The formats one phone number arrives in, and a number too short to be one.
PhoneFormats == {P_TRUNK, P_INTL, P_LOCAL, P_NORM, P_SHORT}

\* Raw records, each tagged with the adapter that receives it.
RawRecords ==
    { [adapter |-> SOURCE_2GIS,
       raw |-> [name |-> name, id |-> Some(id),
                address |-> [name |-> address, city |-> Some(MINSK)],
                contacts |-> <<[type |-> "phone", value |-> Some(phone)]>>]] :
        name \in {Some(<<"C", "o">>), Some(<<"X", "y">>), None},
        id \in {<<"1">>, <<"2">>},
        address \in {Some(<<"A">>), Some(<<"B">>)},
        phone \in PhoneFormats }
    \cup
    { [adapter |-> SOURCE_YANDEX,
       raw |-> [name |-> Some(name), address |-> Some(address),
                Phones |-> <<[formatted |-> Some(phone)]>>]] :
        name \in {<<"C", "o">>, <<" ", "Z">>},
        address \in {<<"A">>, <<>>},
        phone \in PhoneFormats }

\* The adapter's normalisation of a raw record.
parse_record(record) ==
    IF record.adapter = SOURCE_2GIS THEN _parse_item(record.raw)
    ELSE _parse_company(record.raw, MINSK)

\* Two raw records wait at their adapters.
InitKey ==
    /\ parsers = <<>>
    /\ companies = <<>>
    /\ scrape_results = <<>>
    /\ scrape_sessions = <<>>
    /\ now = 0
    /\ runs = [p \in Runs |-> IdleRun]
    /\ sources = [down |-> {}, fixed |-> <<>>]
    /\ txn = [p \in Runs |-> None]
    /\ \E a, b \in RawRecords :
          probe = [stage |-> "raw", records |-> <<a, b>>,
                   companies |-> <<>>, keys |-> <<>>]

\* The adapters turn the raw records into company dicts.
ParseRecords ==
    /\ probe.stage = "raw"
    /\ probe' = [probe EXCEPT !.stage = "parsed",
                              !.companies = [i \in 1..2 |-> parse_record(probe.records[i])]]
    /\ UNCHANGED <<parsers, companies, scrape_results, scrape_sessions, now, runs, sources, txn>>

\* _save_company computes the key of each dict an adapter returned.
ResolveKeys ==
    /\ probe.stage = "parsed"
    /\ \A i \in 1..2 : probe.companies[i] # None
    /\ probe' = [probe EXCEPT !.stage = "keyed",
                              !.keys = [i \in 1..2 |->
                                           _generate_dedup_hash(probe.companies[i][1])]]
    /\ UNCHANGED <<parsers, companies, scrape_results, scrape_sessions, now, runs, sources, txn>>

NextKey == ParseRecords \/ ResolveKeys
SpecKey == InitKey /\ [][NextKey]_vars

\* ---------------------------------------------------------------- two processes, one database
\* app.py (the scheduled run) and run_scraper.py (a run started by hand) are
\* two processes with one ParserManager each, writing to the same database.
\* Every _save_company is a transaction of its own process: its SELECT reads
\* what is committed when it runs, its writes are committed at the end of the
\* with block, and nothing in the code or in the schema orders the
\* transactions of the two processes (no lock, no unique constraint on
\* dedup_hash). A step of this specification is one statement of one process.

\* run_all_parsers of process p begins: the session is created.
begin_run(p, category_name) ==
    /\ runs[p].pc = "idle"
    /\ scrape_sessions' = _create_scrape_session(scrape_sessions, "all_sources", now)
    /\ runs' = [runs EXCEPT ![p] = [@ EXCEPT !.pc = "merging",
                                            !.categories = <<category_name>>,
                                            !.session_id = Len(scrape_sessions) + 1]]
    /\ UNCHANGED <<parsers, companies, scrape_results, now, sources, txn, probe>>

\* _save_company of process p up to the lookup of `existing` (lines 160-175),
\* for a record that reaches it: the category has a row and the key is computed.
lookup_existing(p, company_data) ==
    LET category == category_of(runs[p].categories[1])
        h == _generate_dedup_hash(company_data)
        existing == first_with_hash(companies, h.hash)
    IN /\ runs[p].pc = "merging"
       /\ txn[p] = None
       /\ Len(scrape_results) + Cardinality({q \in Runs : txn[q] # None}) < MaxRows
       /\ category # None
       /\ h.ok
       /\ txn' = [txn EXCEPT ![p] =
                     Some([company_data |-> company_data, category_id |-> category[1],
                           dedup_hash |-> h.hash, existing |-> existing,
                           loaded |-> IF existing = 0 THEN None ELSE companies[existing]])]
       /\ UNCHANGED <<parsers, companies, scrape_results, scrape_sessions, now, runs, sources,
                      probe>>

\* The rest of _save_company of process p (lines 177-235): the branch chosen
\* by the lookup is written and committed, or rolled back when it raises.
write_merge(p) ==
    /\ txn[p] # None
    /\ LET t == txn[p][1]
           r == merge_write(db_now, t.company_data, t.category_id, t.dedup_hash,
                            t.existing, t.loaded, runs[p].session_id, now)
       IN /\ companies' = r.db.companies
          /\ scrape_results' = r.db.scrape_results
          /\ scrape_sessions' = r.db.scrape_sessions
    /\ txn' = [txn EXCEPT ![p] = None]
    /\ UNCHANGED <<parsers, now, runs, sources, probe>>

\* run_all_parsers of process p ends: the session is marked completed.
end_run(p) ==
    /\ runs[p].pc = "merging"
    /\ txn[p] = None
    /\ scrape_sessions' = _complete_scrape_session(
            scrape_sessions, runs[p].session_id, "completed", None, now)
    /\ runs' = [runs EXCEPT ![p].pc = "returned"]
    /\ UNCHANGED <<parsers, companies, scrape_results, now, sources, txn, probe>>

BeginRun == \E p \in Runs, category_name \in KnownCategories : begin_run(p, category_name)
LookupExisting == \E p \in Runs, company_data \in AllCompanies : lookup_existing(p, company_data)
WriteMerge == \E p \in Runs : write_merge(p)
EndRun == \E p \in Runs : end_run(p)

NextConc == BeginRun \/ LookupExisting \/ WriteMerge \/ EndRun \/ Tick
SpecConc == Init /\ [][NextConc]_vars

\* ---------------------------------------------------------------- normalize_phone on its own
\* No parser, no run, an empty database: the state around a function that is
\* exercised on its own.
EmptyProgram ==
    /\ parsers = <<>>
    /\ companies = <<>>
    /\ scrape_results = <<>>
    /\ scrape_sessions = <<>>
    /\ now = 0
    /\ runs = [p \in Runs |-> IdleRun]
    /\ sources = [down |-> {}, fixed |-> <<>>]
    /\ txn = [p \in Runs |-> None]

\* Phone strings: a prefix, a body and a tail, each as sites write them.
PhonePrefixes ==
    { <<>>, <<"+">>, <<"3", "7", "5">>, <<"+", "3", "7", "5", " ">>, <<"8", "0">>,
      <<"8", " ", "(", "0">>, <<"3", "7">>, <<"8">>, <<" ">> }

PhoneBodies ==
    { <<>>, <<"2", "9">>, <<"2", "9", "1", "2", "3", "4">>,
      <<"2", "9", "1", "2", "3", "4", "5">>,
      <<"2", "9", "1", "2", "3", "4", "5", "6", "7">>,
      <<"2", "9", " ", "1", "2", "3", "-", "4", "5", "-", "6", "7">>,
      <<"1", "2", "3">>, <<"a", "b">> }

PhoneTails == { <<>>, <<" ">>, <<"5">> }

PhoneStrings ==
    {pre \o body \o tail : pre \in PhonePrefixes, body \in PhoneBodies, tail \in PhoneTails}

\* A string is handed to normalize_phone.
InitPhone ==
    /\ EmptyProgram
    /\ \E phone \in PhoneStrings :
          probe = [stage |-> "raw", phone |-> phone, result |-> None]

\* The call returns.
NormalizePhone ==
    /\ probe.stage = "raw"
    /\ probe' = [probe EXCEPT !.stage = "normalized",
                              !.result = normalize_phone(Some(probe.phone))]
    /\ UNCHANGED <<parsers, companies, scrape_results, scrape_sessions, now, runs, sources, txn>>

NextPhone == NormalizePhone
SpecPhone == InitPhone /\ [][NextPhone]_vars

\* ---------------------------------------------------------------- a run is cancelled
\* The task running run_all_parsers is cancelled while it is suspended in
\* search_by_category: CancelledError is raised at the await of line 77.
\* Where CancelledError is a BaseException (Python 3.8 and later) neither
\* `except Exception` of _run_parser nor that of run_all_parsers catches it and
\* it reaches the caller; where it is an Exception (Python 3.7) _run_parser
\* catches and logs it like any adapter error and the loops move on. The
\* repository pins no Python version, so both are outcomes (is_exception).
\* probe is the set of runs that have been cancelled.
cancel_run(p, is_exception) ==
    /\ runs[p].pc = "awaiting"
    /\ p \notin probe
    /\ probe' = probe \cup {p}
    /\ IF is_exception
       THEN continue_run(p, runs[p], db_now, TRUE, TRUE)
       ELSE /\ runs' = [runs EXCEPT ![p].pc = "raised"]
            /\ UNCHANGED <<companies, scrape_results, scrape_sessions>>
    /\ UNCHANGED <<parsers, now, sources, txn>>

InitCancel ==
    /\ parsers = <<>>
    /\ companies = <<>>
    /\ scrape_results = <<>>
    /\ scrape_sessions = <<>>
    /\ now = 0
    /\ runs = [p \in Runs |-> IdleRun]
    /\ sources = [down |-> {}, fixed |-> <<>>]
    /\ txn = [p \in Runs |-> None]
    /\ probe = {}

Cancel == \E p \in Runs, is_exception \in BOOLEAN : cancel_run(p, is_exception)

NextCancel == Register \/ StartRun \/ AdapterAnswers \/ Cancel \/ Tick
SpecCancel == InitCancel /\ [][NextCancel]_vars

\* ---------------------------------------------------------------- records without a phone
\* Company dicts without a usable phone: the key 'phone' left out, None or
\* empty, and name and address each left out, None, empty or given.
OptionalNames == {None, Some(None), Some(Some(<<>>)), Some(Some(<<"C", "o">>)),
                  Some(Some(<<" ", "c", "O">>))}

OptionalAddresses == {None, Some(None), Some(Some(<<"A">>))}

PhonelessCompanies ==
    { LET c0 == [source |-> Some(source), source_id |-> Some(source_id)]
          c1 == IF phone = None THEN c0 ELSE Put(c0, "phone", phone[1])
          c2 == IF name = None THEN c1 ELSE Put(c1, "name", name[1])
      IN IF address = None THEN c2 ELSE Put(c2, "address", address[1]) :
        source \in {SOURCE_2GIS}, source_id \in {<<"1">>, <<"2">>},
        phone \in {None, Some(None), Some(Some(<<>>))},
        name \in OptionalNames, address \in OptionalAddresses }

\* Two such dicts have come back from the adapters.
InitResolve ==
    /\ EmptyProgram
    /\ \E a, b \in PhonelessCompanies :
          probe = [stage |-> "parsed", records |-> <<>>,
                   companies |-> <<Some(a), Some(b)>>, keys |-> <<>>]

NextResolve == ResolveKeys
SpecResolve == InitResolve /\ [][NextResolve]_vars

\* ---------------------------------------------------------------- one batch
\* One adapter is registered and answers the one category with a fixed batch
\* of MaxBatch company dicts; the store is empty.
InitBatch ==
    /\ parsers = <<SOURCE_MOCK>>
    /\ companies = <<>>
    /\ scrape_results = <<>>
    /\ scrape_sessions = <<>>
    /\ now = 0
    /\ runs = [p \in Runs |-> IdleRun]
    /\ \E batch \in [1..MaxBatch -> AllCompanies] :
          sources = [down |-> {}, fixed |-> (SOURCE_MOCK :> batch)]
    /\ txn = [p \in Runs |-> None]
    /\ probe = None

NextBatch == StartRunE2E \/ AdapterAnswers \/ Tick
SpecBatch == InitBatch /\ [][NextBatch]_vars

\* ---------------------------------------------------------------- extract_social_links on its own
\* The substrings extract_social_links looks for, by platform.
PlatformMarks ==
    [instagram |-> {<<"i", "n", "s", "t", "a", "g", "r", "a", "m", ".", "c", "o", "m">>, <<"@">>},
     facebook |-> {<<"f", "a", "c", "e", "b", "o", "o", "k", ".", "c", "o", "m">>, <<"f", "b", ".", "c", "o", "m">>},
     vk |-> {<<"v", "k", ".", "c", "o", "m">>},
     telegram |-> {<<"t", ".", "m", "e">>, <<"t", "e", "l", "e", "g", "r", "a", "m">>}]

\* Whether the lower-cased string value carries a mark of the platform.
mentions(value, platform) ==
    \E mark \in PlatformMarks[platform] : contains(lower(value), mark)

\* The platform the if/elif chain of extract_social_links files a str value
\* under: the first platform of the chain whose mark the value carries, or
\* None when it carries no mark.
platform_of(value) ==
    IF mentions(value, "instagram") THEN Some("instagram")
    ELSE IF mentions(value, "facebook") THEN Some("facebook")
    ELSE IF mentions(value, "vk") THEN Some("vk")
    ELSE IF mentions(value, "telegram") THEN Some("telegram")
    ELSE None

\* The loop body of extract_social_links for one value of raw_data: None
\* stands for a value that is not a str.
social_step(socials, value) ==
    IF value = None \/ platform_of(value[1]) = None THEN socials
    ELSE [socials EXCEPT ![platform_of(value[1])[1]] = value]

RECURSIVE social_loop(_, _)
social_loop(socials, values) ==
    IF values = <<>> THEN socials
    ELSE social_loop(social_step(socials, values[1]), Tail(values))

\* BaseParser.extract_social_links, raw_data given as its values in the
\* order raw_data.items() yields them.
extract_social_links(raw_data) ==
    social_loop([instagram |-> None, facebook |-> None, vk |-> None, telegram |-> None],
                raw_data)

\* Values of a raw payload: links and handles of each platform, an e-mail
\* address on a platform's domain, a plain name, and a value that is not a str.
PayloadValues ==
    { Some(<<"i", "n", "s", "t", "a", "g", "r", "a", "m", ".", "c", "o", "m", "/", "a">>),
      Some(<<"I", "n", "s", "t", "a", "g", "r", "a", "m", ".", "c", "o", "m", "/", "b">>),
      Some(<<"@", "c">>),
      Some(<<"f", "b", ".", "c", "o", "m", "/", "a">>),
      Some(<<"f", "a", "c", "e", "b", "o", "o", "k", ".", "c", "o", "m", "/", "b">>),
      Some(<<"v", "k", ".", "c", "o", "m", "/", "a">>),
      Some(<<"v", "k", ".", "c", "o", "m", "/", "b">>),
      Some(<<"t", ".", "m", "e", "/", "a">>),
      Some(<<"t", "e", "l", "e", "g", "r", "a", "m", " ", "b">>),
      Some(<<"x", "@", "v", "k", ".", "c", "o", "m">>),
      Some(<<"C", "o">>),
      None }

\* A raw payload is handed to extract_social_links.
InitSocial ==
    /\ EmptyProgram
    /\ \E raw_data \in SeqUpTo(PayloadValues, MaxFields) :
          probe = [stage |-> "raw", raw_data |-> raw_data, socials |-> None]

\* The call returns.
ExtractSocialLinks ==
    /\ probe.stage = "raw"
    /\ probe' = [probe EXCEPT !.stage = "extracted",
                              !.socials = Some(extract_social_links(probe.raw_data))]
    /\ UNCHANGED <<parsers, companies, scrape_results, scrape_sessions, now, runs, sources, txn>>

NextSocial == ExtractSocialLinks
SpecSocial == InitSocial /\ [][NextSocial]_vars

\* ---------------------------------------------------------------- one key, many records
COMPANY_Y == <<"Y">>

\* The rating and reviews_count a record of Company X can carry: <<rating,
\* reviews_count>>, None where the dict has no such key.
RatingsX == { <<None, None>>, <<Some(4), Some(10)>>, <<Some(5), None>>, <<Some(0), Some(0)>> }

\* The dict an adapter builds for a company: the phone decides the key, and
\* 'rating' and 'reviews_count' are left out when None.
RatedCompany(source_name, name, phone, rating, reviews_count) ==
    LET c0 == [name |-> Some(name), phone |-> Some(phone), source |-> Some(source_name),
               address |-> Some(source_name), city |-> Some(MINSK)]
        c1 == IF rating = None THEN c0 ELSE Put(c0, "rating", rating)
    IN IF reviews_count = None THEN c1 ELSE Put(c1, "reviews_count", reviews_count)

\* The records of one adapter: Company X with each of its ratings, Company Y.
RecordsOf(source_name) ==
    {RatedCompany(source_name, COMPANY_X, P_NORM, r[1], r[2]) : r \in RatingsX}
    \cup {RatedCompany(source_name, COMPANY_Y, P_SHORT, Some(3), Some(7))}

\* Both adapters are registered, in either order, each answers every category
\* with its fixed batch of one to MaxBatch records, and the store is empty.
InitOrder ==
    /\ \E first \in SourceNames :
          parsers = <<first, CHOOSE s \in SourceNames : s # first>>
    /\ companies = <<>>
    /\ scrape_results = <<>>
    /\ scrape_sessions = <<>>
    /\ now = 0
    /\ runs = [p \in Runs |-> IdleRun]
    /\ \E k1, k2 \in 1..MaxBatch :
          \E b1 \in [1..k1 -> RecordsOf(SOURCE_2GIS)], b2 \in [1..k2 -> RecordsOf(SOURCE_MOCK)] :
              sources = [down |-> {}, fixed |-> (SOURCE_2GIS :> b1) @@ (SOURCE_MOCK :> b2)]
    /\ txn = [p \in Runs |-> None]
    /\ probe = None

\* The one run, over two categories that have a row.
StartRunOrder == run_all_parsers(1, <<"auto_service", "handyman">>, TRUE, TRUE, TRUE)

NextOrder == StartRunOrder \/ AdapterAnswers \/ Tick
SpecOrder == InitOrder /\ [][NextOrder]_vars

\* ---------------------------------------------------------------- a run from start to end
\* Zero to MaxParsers adapters are registered; an adapter that is not down for
\* a category answers it with its one record; the commits of the session's row
\* may fail. Every adapter call that is awaited is answered: the event loop
\* resumes the coroutine when search_by_category returns or raises.
InitLife ==
    /\ parsers \in SeqUpTo(SourceNames, MaxParsers)
    /\ companies = <<>>
    /\ scrape_results = <<>>
    /\ scrape_sessions = <<>>
    /\ now = 0
    /\ runs = [p \in Runs |-> IdleRun]
    /\ \E down \in SUBSET {<<SOURCE_MOCK, "auto_service">>, <<SOURCE_2GIS, "handyman">>} :
          sources = [down |-> down,
                     fixed |-> (SOURCE_2GIS :>
                                   <<RatedCompany(SOURCE_2GIS, COMPANY_X, P_NORM, Some(4), Some(10))>>)
                               @@ (SOURCE_MOCK :>
                                   <<RatedCompany(SOURCE_MOCK, COMPANY_Y, P_SHORT, Some(3), Some(7))>>)]
    /\ txn = [p \in Runs |-> None]
    /\ probe = None

NextLife == StartRunDb \/ AdapterAnswersDb \/ Tick

\* Some run is suspended in search_by_category. AdapterAnswersDb is enabled
\* exactly then: Outcomes is never empty and the step moves the run on.
Suspended == \E p \in Runs : runs[p].pc = "awaiting"

\* Weak fairness of AdapterAnswersDb, WF_vars(AdapterAnswersDb), written out
\* with Suspended for ENABLED <<AdapterAnswersDb>>_vars.
AdapterCallsEnd == []<>(~Suspended) \/ []<><<AdapterAnswersDb>>_vars

SpecLife == InitLife /\ [][NextLife]_vars /\ AdapterCallsEnd

\* ---------------------------------------------------------------- the scheduled job
SOURCE_EGR == <<"e", "g", "r">>
SOURCE_ONLINER == <<"o", "n", "l", "i", "n", "e", "r">>
SOURCE_DEAL == <<"d", "e", "a", "l">>
SOURCE_INSTAGRAM == <<"i", "n", "s", "t", "a", "g", "r", "a", "m">>

\* The parsers run_daily_scraping registers, in its order: 2GIS, Yandex Maps
\* and Instagram when the configuration has their key, the other three always.
registered_by_job(has_twogis, has_yandex, has_instagram) ==
    (IF has_twogis THEN <<SOURCE_2GIS>> ELSE <<>>)
    \o (IF has_yandex THEN <<SOURCE_YANDEX>> ELSE <<>>)
    \o <<SOURCE_EGR, SOURCE_ONLINER, SOURCE_DEAL>>
    \o (IF has_instagram THEN <<SOURCE_INSTAGRAM>> ELSE <<>>)

DailySources ==
    {SOURCE_2GIS, SOURCE_YANDEX, SOURCE_EGR, SOURCE_ONLINER, SOURCE_DEAL, SOURCE_INSTAGRAM}

\* config.get_enabled_niches() of the deployment.
EnabledNiches == <<"auto_service">>

\* TaskScheduler.run_daily_scraping up to the first await of run_all_parsers:
\* the parsers are registered with the module's parser_manager, the session
\* is created and the first adapter is called. The scheduler runs one
\* instance of the job at a time.
run_daily_scraping(p) ==
    LET sessions2 == _create_scrape_session(scrape_sessions, "all_sources", now) IN
    /\ runs[p].pc = "idle"
    /\ \A q \in Runs : q < p => runs[q].pc \in {"returned", "raised"}
    /\ parsers' = parsers \o sources.configured
    /\ scrape_sessions' = sessions2
    /\ runs' = [runs EXCEPT ![p] =
                  [@ EXCEPT !.pc = "awaiting", !.categories = EnabledNiches,
                            !.session_id = Len(sessions2), !.parser = 1, !.category = 1,
                            !.calls = {<<1, EnabledNiches[1]>>}]]
    /\ UNCHANGED <<companies, scrape_results, now, sources, txn, probe>>

\* The process has started (app.py): parser_manager is the empty manager the
\* module creates on import, the database is empty, and every source answers
\* with its one record or is down.
InitDaily ==
    /\ parsers = <<>>
    /\ companies = <<>>
    /\ scrape_results = <<>>
    /\ scrape_sessions = <<>>
    /\ now = 0
    /\ runs = [p \in Runs |-> IdleRun]
    /\ \E has_twogis, has_yandex, has_instagram \in BOOLEAN,
          down \in SUBSET {<<SOURCE_EGR, "auto_service">>, <<SOURCE_DEAL, "auto_service">>} :
          sources = [down |-> down,
                     fixed |-> [s \in DailySources |->
                                   <<RatedCompany(s, COMPANY_X, P_NORM, Some(4), Some(10))>>],
                     configured |-> registered_by_job(has_twogis, has_yandex, has_instagram)]
    /\ txn = [p \in Runs |-> None]
    /\ probe = None

RunDailyScraping == \E p \in Runs : run_daily_scraping(p)

NextDaily == RunDailyScraping \/ AdapterAnswers \/ Tick
SpecDaily == InitDaily /\ [][NextDaily]_vars

\* ---------------------------------------------------------------- a niche without a row
\* ENABLED_NICHES names a niche that seed_categories() did not insert: the one
\* run is over a category that has a row and one that has none, and the
\* adapter answers both with its batch.
StartRunNiche == run_all_parsers(1, <<"auto_service", "pets">>, TRUE, TRUE, TRUE)

NextNiche == StartRunNiche \/ AdapterAnswers \/ Tick
SpecNiche == InitBatch /\ [][NextNiche]_vars

\* ---------------------------------------------------------------- bot users
\* The table bot_users is a sequence of rows; probe holds it together with the
\* configured password and the last call made with its result.
user_with(bot_users, telegram_id) ==
    LET found == {i \in DOMAIN bot_users : bot_users[i].telegram_id = telegram_id} IN
    IF found = {} THEN 0 ELSE CHOOSE i \in found : \A j \in found : i <= j

\* Mutant of authorize_user: the password is not compared.
authorize_user_any_password(bot_users, BOT_PASSWORD, telegram_id, password, telegram_user, t) ==
    LET user == user_with(bot_users, telegram_id) IN
    IF user # 0
    THEN IF bot_users[user].is_authorized
         THEN [success |-> FALSE, bot_users |-> bot_users]
         ELSE [success |-> TRUE,
               bot_users |-> [bot_users EXCEPT ![user] =
                                [@ EXCEPT !.is_authorized = TRUE,
                                          !.last_active_at = Some(t),
                                          !.username = telegram_user.username,
                                          !.first_name = telegram_user.first_name]]]
    ELSE [success |-> TRUE,
          bot_users |-> Append(bot_users,
                               [telegram_id |-> telegram_id,
                                username |-> telegram_user.username,
                                first_name |-> telegram_user.first_name,
                                is_authorized |-> TRUE,
                                last_active_at |-> Some(t),
                                requests_count |-> 0])]

\* AuthManager.authorize_user: success and the table after the call.
authorize_user(bot_users, BOT_PASSWORD, telegram_id, password, telegram_user, t) ==
    LET user == user_with(bot_users, telegram_id) IN
    IF password # BOT_PASSWORD THEN [success |-> FALSE, bot_users |-> bot_users]
    ELSE IF user # 0
    THEN IF bot_users[user].is_authorized
         THEN [success |-> FALSE, bot_users |-> bot_users]
         ELSE [success |-> TRUE,
               bot_users |-> [bot_users EXCEPT ![user] =
                                [@ EXCEPT !.is_authorized = TRUE,
                                          !.last_active_at = Some(t),
                                          !.username = telegram_user.username,
                                          !.first_name = telegram_user.first_name]]]
    ELSE [success |-> TRUE,
          bot_users |-> Append(bot_users,
                               [telegram_id |-> telegram_id,
                                username |-> telegram_user.username,
                                first_name |-> telegram_user.first_name,
                                is_authorized |-> TRUE,
                                last_active_at |-> Some(t),
                                requests_count |-> 0])]

\* AuthManager.is_authorized: the answer and the table after the call.
is_authorized(bot_users, telegram_id, t) ==
    LET user == user_with(bot_users, telegram_id) IN
    IF user # 0 /\ bot_users[user].is_authorized
    THEN [success |-> TRUE,
          bot_users |-> [bot_users EXCEPT ![user].last_active_at = Some(t)]]
    ELSE [success |-> FALSE, bot_users |-> bot_users]

\* AuthManager.increment_request_count: the table after the call.
increment_request_count(bot_users, telegram_id, t) ==
    LET user == user_with(bot_users, telegram_id) IN
    IF user # 0
    THEN [bot_users EXCEPT ![user] = [@ EXCEPT !.requests_count = @ + 1,
                                               !.last_active_at = Some(t)]]
    ELSE bot_users

TelegramIds == {1, 2}

PW == <<"p", "w">>

\* Values of BOT_PASSWORD: the default of config.py and a configured one.
ConfiguredPasswords == {<<>>, PW}

\* What a user can send as the password, after receive_password has stripped it.
Passwords == {<<>>, PW, <<"P", "w">>, <<"p", "w", "d">>}

\* update.effective_user
TelegramUsers ==
    { [username |-> Some(<<"a">>), first_name |-> Some(<<"A">>)],
      [username |-> None, first_name |-> Some(<<"B">>)] }

\* The bot has started: the table is empty or holds a row that is not
\* authorized (the column's default), and no call has been made.
InitAuth ==
    /\ EmptyProgram
    /\ \E BOT_PASSWORD \in ConfiguredPasswords,
          rows \in {<<>>, <<[telegram_id |-> 1, username |-> None, first_name |-> None,
                             is_authorized |-> FALSE, last_active_at |-> None,
                             requests_count |-> 0]>>} :
          probe = [BOT_PASSWORD |-> BOT_PASSWORD, bot_users |-> rows, last |-> None]

\* receive_password hands the message's text to authorize_user.
AuthorizeUser ==
    \E telegram_id \in TelegramIds, password \in Passwords, telegram_user \in TelegramUsers :
        LET r == authorize_user(probe.bot_users, probe.BOT_PASSWORD, telegram_id, password,
                                telegram_user, now)
        IN /\ probe' = [probe EXCEPT !.bot_users = r.bot_users,
                                     !.last = Some([op |-> "authorize_user",
                                                    telegram_id |-> telegram_id,
                                                    password |-> password,
                                                    success |-> r.success])]
           /\ UNCHANGED <<parsers, companies, scrape_results, scrape_sessions, now, runs,
                          sources, txn>>

\* A handler asks whether the user is authorized.
IsAuthorized ==
    \E telegram_id \in TelegramIds :
        LET r == is_authorized(probe.bot_users, telegram_id, now)
        IN /\ probe' = [probe EXCEPT !.bot_users = r.bot_users,
                                     !.last = Some([op |-> "is_authorized",
                                                    telegram_id |-> telegram_id,
                                                    password |-> <<>>,
                                                    success |-> r.success])]
           /\ UNCHANGED <<parsers, companies, scrape_results, scrape_sessions, now, runs,
                          sources, txn>>

\* A handler counts a request of the user.
IncrementRequestCount ==
    \E telegram_id \in TelegramIds :
        /\ \A i \in DOMAIN probe.bot_users : probe.bot_users[i].requests_count < MaxRequests
        /\ probe' = [probe EXCEPT !.bot_users =
                                     increment_request_count(probe.bot_users, telegram_id, now),
                                  !.last = Some([op |-> "increment_request_count",
                                                 telegram_id |-> telegram_id,
                                                 password |-> <<>>,
                                                 success |-> TRUE])]
        /\ UNCHANGED <<parsers, companies, scrape_results, scrape_sessions, now, runs,
                       sources, txn>>

NextAuth == AuthorizeUser \/ IsAuthorized \/ IncrementRequestCount \/ Tick
SpecAuth == InitAuth /\ [][NextAuth]_vars

\* ---------------------------------------------------------------- a stored phone is normalized again
\* A string is handed to normalize_phone, and the result, as a Lead would
\* store it, is handed to normalize_phone again: stored is the first result.
InitRenormalize ==
    /\ EmptyProgram
    /\ \E phone \in PhoneStrings :
          probe = [stage |-> "raw", phone |-> phone, result |-> None, stored |-> None]

Renormalize ==
    /\ probe.stage = "normalized"
    /\ probe' = [probe EXCEPT !.stage = "renormalized",
                              !.stored = probe.result,
                              !.result = normalize_phone(probe.result)]
    /\ UNCHANGED <<parsers, companies, scrape_results, scrape_sessions, now, runs, sources, txn>>

NextRenormalize == NormalizePhone \/ Renormalize
SpecRenormalize == InitRenormalize /\ [][NextRenormalize]_vars

\* ---------------------------------------------------------------- the scheduled fan-out
\* A BotUser row as the table holds it.
BotUserRow(telegram_id, authorized) ==
    [telegram_id |-> telegram_id, username |-> None, first_name |-> None,
     is_authorized |-> authorized, last_active_at |-> None, requests_count |-> 0]

\* AuthManager.get_authorized_users: the authorized rows in table order, as
\* the objects the caller receives. The list is returned from inside
\* `with get_db_session()`, whose exit commits, which expires every attribute
\* of the loaded objects (sessionmaker's expire_on_commit default), and then
\* closes the session, which detaches them.
get_authorized_users(bot_users) ==
    LET rows == SelectSeq(bot_users, LAMBDA r : r.is_authorized) IN
    [i \in DOMAIN rows |-> [row |-> rows[i], expired |-> TRUE, detached |-> TRUE]]

\* Reading user.telegram_id: an expired attribute is reloaded through the
\* object's session, and an object without a session raises
\* DetachedInstanceError (None here).
telegram_id_of(user) ==
    IF user.expired /\ user.detached THEN None ELSE Some(user.row.telegram_id)

\* The loop `for user in users` of send_results_to_users: the chat ids
\* send_document was called with, in order, the number of sends that
\* succeeded, and whether an exception left the loop. send_document raises
\* for the chat ids in failing. Reading user.telegram_id raises inside the
\* try, and the handler, which reads it again for its log line, raises out of
\* the loop.
RECURSIVE send_loop(_, _)
send_loop(users, failing) ==
    IF users = <<>> THEN [attempts |-> <<>>, sent_count |-> 0, raised |-> FALSE]
    ELSE LET chat_id == telegram_id_of(users[1])
             rest == send_loop(Tail(users), failing)
         IN IF chat_id = None THEN [attempts |-> <<>>, sent_count |-> 0, raised |-> TRUE]
            ELSE [attempts |-> <<chat_id[1]>> \o rest.attempts,
                  sent_count |-> rest.sent_count + (IF chat_id[1] \in failing THEN 0 ELSE 1),
                  raised |-> rest.raised]

\* CSVExporter.export_leads: None when there is no active company, else the
\* file's path, or an exception (export_ok = FALSE).
EXPORT_FILE == <<"l", "e", "a", "d", "s", ".", "c", "s", "v">>

\* TaskScheduler.send_results_to_users, called by run_daily_scraping once
\* run_all_parsers has returned; probe holds the bot application, the table
\* bot_users, the chats send_document fails for, and what the fan-out did.
send_results_to_users(p) ==
    LET file_path == IF \E i \in DOMAIN companies : companies[i].is_active
                     THEN Some(EXPORT_FILE) ELSE None
        users == get_authorized_users(probe.bot_users)
        sent == send_loop(users, probe.failing)
        nothing == [probe EXCEPT !.pc = "done"]
    IN /\ probe.pc = "scheduled"
       /\ runs[p].pc = "returned"
       /\ probe' =
            IF ~probe.bot_app THEN nothing
            ELSE IF file_path # None /\ ~probe.export_ok
                 THEN [nothing EXCEPT !.error_logged = TRUE]
            ELSE IF file_path = None THEN [nothing EXCEPT !.exported = TRUE]
            ELSE IF users = <<>> THEN [nothing EXCEPT !.exported = TRUE]
            ELSE [probe EXCEPT !.pc = "done", !.exported = TRUE,
                               !.attempts = sent.attempts,
                               !.sent_count = sent.sent_count,
                               !.error_logged = sent.raised]
       /\ UNCHANGED <<parsers, companies, scrape_results, scrape_sessions, now, runs,
                      sources, txn>>

\* The bot users of a deployment: none, one, two, and two of whom the first
\* is not authorized.
BotUserTables ==
    { <<>>, <<BotUserRow(1, TRUE)>>, <<BotUserRow(2, TRUE), BotUserRow(1, TRUE)>>,
      <<BotUserRow(1, FALSE), BotUserRow(2, TRUE)>> }

\* The process has started and the job is scheduled: no API key is configured,
\* a source answers with its one record or is down, and the scheduler was
\* given a bot application or none.
InitFanout ==
    /\ parsers = <<>>
    /\ companies = <<>>
    /\ scrape_results = <<>>
    /\ scrape_sessions = <<>>
    /\ now = 0
    /\ runs = [p \in Runs |-> IdleRun]
    /\ \E down \in {{}, {<<SOURCE_EGR, "auto_service">>},
                    {<<s, "auto_service">> : s \in DailySources}} :
          sources = [down |-> down,
                     fixed |-> [s \in DailySources |->
                                   <<RatedCompany(s, COMPANY_X, P_NORM, Some(4), Some(10))>>],
                     configured |-> registered_by_job(FALSE, FALSE, FALSE)]
    /\ txn = [p \in Runs |-> None]
    /\ \E bot_app, export_ok \in BOOLEAN, bot_users \in BotUserTables,
          failing \in SUBSET TelegramIds :
          probe = [pc |-> "scheduled", bot_app |-> bot_app, export_ok |-> export_ok,
                   bot_users |-> bot_users, failing |-> failing, exported |-> FALSE,
                   attempts |-> <<>>, sent_count |-> 0, error_logged |-> FALSE]

\* The first firing of the job.
RunJob == run_daily_scraping(1)
SendResultsToUsers == send_results_to_users(1)

NextFanout == RunJob \/ AdapterAnswers \/ SendResultsToUsers \/ Tick
SpecFanout == InitFanout /\ [][NextFanout]_vars

\* ---------------------------------------------------------------- reading the last session
\* session.query(ScrapeSession).order_by(ScrapeSession.started_at.desc()).first():
\* the ids the query can return, one of the rows with the latest started_at.
latest_sessions(sessions) ==
    {s \in DOMAIN sessions :
        \A t \in DOMAIN sessions : sessions[t].started_at <= sessions[s].started_at}

\* The attributes of a ScrapeSession object that hold a row's columns.
ScrapeSessionAttributes ==
    {"source", "status", "total_scraped", "new_companies", "updated_companies",
     "errors_count", "started_at", "completed_at", "duration_seconds", "error_message"}

\* status_handler from the query on, last_session a row or None: what the
\* reply shows, or the error the handler's except block reports.
status_handler(last_session) ==
    IF last_session = None THEN [raised |-> FALSE, never_run |-> TRUE]
    ELSE LET row == last_session[1]
             read == {"status", "source", "started_at", "completed_at", "duration_seconds",
                      "total_scraped", "new_companies", "updated_companies",
                      "errors_count", "error_message"}
         IN IF ~(read \subseteq ScrapeSessionAttributes)
            THEN [raised |-> TRUE, never_run |-> FALSE]
            ELSE [raised |-> FALSE, never_run |-> FALSE,
                  status |-> row.status,
                  total_scraped |-> row.total_scraped,
                  new_companies |-> row.new_companies,
                  updated_companies |-> row.updated_companies,
                  errors_count |-> IF row.errors_count > 0 THEN Some(row.errors_count) ELSE None,
                  error_message |-> IF TruthyStr(row.error_message)
                                    THEN Some(SubSeq(row.error_message[1], 1,
                                              IF Len(row.error_message[1]) < 100
                                              THEN Len(row.error_message[1]) ELSE 100))
                                    ELSE None]

\* Stats.get_database_stats from the query of the last session on: the
\* 'last_scrape' entry, or AttributeError when the code reads an attribute
\* that a ScrapeSession does not have.
get_database_stats(last_session) ==
    IF last_session = None THEN [raised |-> FALSE, last_scrape |-> None]
    ELSE LET row == last_session[1]
             read == {"started_at", "finished_at", "total_found", "new_added", "updated",
                      "status"}
         IN IF ~(read \subseteq ScrapeSessionAttributes)
            THEN [raised |-> TRUE, last_scrape |-> None]
            ELSE [raised |-> FALSE,
                  last_scrape |-> Some([started_at |-> row.started_at, status |-> row.status])]

\* ---------------------------------------------------------------- claims
Terminal == {"completed", "failed"}

FillFields == {"phone", "email", "website", "instagram"}

RowsOf(session_id) ==
    {k \in DOMAIN scrape_results : scrape_results[k].session_id = session_id}

RowsWith(session_id, action) ==
    {k \in RowsOf(session_id) : scrape_results[k].action = action}

\* C1: merges run one at a time keep at most one active Lead per dedup_hash,
\* and every Lead has exactly one `created` row in the audit trail, its first:
\* it was created on the first sighting of its key and only updated afterwards.
C1_OneLeadPerKey ==
    /\ \A i, j \in DOMAIN companies :
          (companies[i].is_active /\ companies[j].is_active
           /\ companies[i].dedup_hash = companies[j].dedup_hash) => i = j
    /\ \A i \in DOMAIN companies :
          LET rows == {k \in DOMAIN scrape_results : scrape_results[k].company_id = i} IN
          /\ Cardinality({k \in rows : scrape_results[k].action = "created"}) = 1
          /\ \A k \in rows : scrape_results[k].action = "created" => \A m \in rows : k <= m

\* A Lead that a later sighting of its key has updated.
C1_Witness ==
    \E k \in DOMAIN scrape_results :
        /\ scrape_results[k].action = "updated"
        /\ scrape_results[k].company_id \in DOMAIN companies

\* C3: from every reachable store that has no Lead with the record's key,
\* merging a record that has a name twice gives `created` and then `updated`
\* for the same Lead, and exactly one Lead with that key.
C3_MergeTwice ==
    \A company_data \in AllCompanies, category_name \in KnownCategories,
       session_id \in DOMAIN scrape_sessions :
        LET h == _generate_dedup_hash(company_data)
            first == _save_company(db_now, company_data, category_name, session_id, now)
            second == _save_company(first.db, company_data, category_name, session_id, now)
            row1 == first.db.scrape_results[Len(first.db.scrape_results)]
            row2 == second.db.scrape_results[Len(second.db.scrape_results)]
        IN (h.ok /\ Get(company_data, "name") # None
            /\ companies_with_hash(companies, h.hash) = {})
           => /\ ~first.raised /\ ~second.raised
              /\ Len(first.db.scrape_results) = Len(scrape_results) + 1
              /\ Len(second.db.scrape_results) = Len(scrape_results) + 2
              /\ row1.action = "created" /\ row2.action = "updated"
              /\ row1.company_id = row2.company_id
              /\ Len(second.db.companies) = Len(companies) + 1
              /\ Cardinality(companies_with_hash(second.db.companies, h.hash)) = 1

\* A run has merged one record twice in a row: the rows are `created` and then
\* `updated` for one Lead, and the Lead is what the two merges of that record give.
C3_Witness ==
    \E k \in DOMAIN scrape_results, company_data \in AllCompanies, t \in 0..MaxTime :
        /\ k + 1 \in DOMAIN scrape_results
        /\ scrape_results[k].action = "created"
        /\ scrape_results[k + 1].action = "updated"
        /\ scrape_results[k + 1].company_id = scrape_results[k].company_id
        /\ scrape_results[k + 1].session_id = scrape_results[k].session_id
        /\ LET row == companies[scrape_results[k].company_id] IN
           row = _update_company(
                    new_company(company_data, row.category_id,
                                _generate_dedup_hash(company_data).hash, t),
                    company_data, t)

\* C5: a session's status changes only from started to completed or failed,
\* and the row of a completed or failed session is never changed again.
C5_TerminalIsFinal ==
    [][\A s \in DOMAIN scrape_sessions :
          /\ s \in DOMAIN scrape_sessions'
          /\ scrape_sessions[s].status \in Terminal
                => scrape_sessions'[s] = scrape_sessions[s]
          /\ scrape_sessions'[s].status # scrape_sessions[s].status
                => /\ scrape_sessions[s].status = "started"
                   /\ scrape_sessions'[s].status \in Terminal]_vars

\* A later run has merged records and ended after an earlier session ended as failed.
C5_Witness ==
    \E s, t \in DOMAIN scrape_sessions :
        /\ s < t
        /\ scrape_sessions[s].status = "failed"
        /\ scrape_sessions[t].status = "completed"
        /\ scrape_sessions[t].total_scraped > 0

\* C7: for every session total_scraped is the number of its ScrapeResult rows,
\* new_companies the number of its `created` rows and updated_companies the
\* number of its `updated` rows.
C7_Accounting ==
    \A s \in DOMAIN scrape_sessions :
        /\ scrape_sessions[s].total_scraped = Cardinality(RowsOf(s))
        /\ scrape_sessions[s].new_companies = Cardinality(RowsWith(s, "created"))
        /\ scrape_sessions[s].updated_companies = Cardinality(RowsWith(s, "updated"))

\* A session that has counted a created and an updated record.
C7_Witness ==
    \E s \in DOMAIN scrape_sessions :
        /\ scrape_sessions[s].total_scraped = 2
        /\ scrape_sessions[s].new_companies = 1
        /\ scrape_sessions[s].updated_companies = 1

\* C10: an update fills phone, email, website and instagram from the incoming
\* record when the Lead's value is null or empty, and a non-empty value of a
\* Lead is never replaced, by one update or over the steps of the runs.
C10_FillMissing ==
    /\ [](\A i \in DOMAIN companies, company_data \in AllCompanies, f \in FillFields :
            LET merged == _update_company(companies[i], company_data, now) IN
            /\ (~TruthyStr(companies[i][f]) /\ TruthyStr(Get(company_data, f)))
                  => merged[f] = company_data[f]
            /\ TruthyStr(companies[i][f]) => merged[f] = companies[i][f])
    /\ [][\A i \in DOMAIN companies, f \in FillFields :
            TruthyStr(companies[i][f]) => companies'[i][f] = companies[i][f]]_vars

\* A Lead whose email an update has filled: only the nameless 2GIS item carries
\* this address, and a nameless record cannot create a Lead.
C10_Witness ==
    \E i \in DOMAIN companies :
        /\ companies[i].email = Some(E1)
        /\ \E k \in DOMAIN scrape_results :
              scrape_results[k].company_id = i /\ scrape_results[k].action = "updated"

\* C2: whatever the interleaving of the merges of two runs, no two Leads have
\* the same dedup_hash.
C2_AtomicMerge ==
    \A i \in DOMAIN companies :
        Cardinality(companies_with_hash(companies, companies[i].dedup_hash)) = 1

\* C4: when a run returns and an adapter it called was down for a category,
\* the run has called every registered adapter for every category, and its
\* session is completed with an errors_count greater than zero.
C4_Containment ==
    [][\A p \in Runs :
          (/\ runs[p].pc # "returned"
           /\ runs'[p].pc = "returned"
           /\ \E call \in runs'[p].calls : <<parsers[call[1]], call[2]>> \in sources.down)
          => LET run == runs'[p]
                 scrape_session == scrape_sessions'[run.session_id]
             IN /\ \A i \in DOMAIN parsers, k \in DOMAIN run.categories :
                      <<i, run.categories[k]>> \in run.calls
                /\ scrape_session.status = "completed"
                /\ scrape_session.errors_count > 0]_vars

\* C6: on a session that is completed or failed, _complete_scrape_session
\* with any status and error message leaves every row as it is.
C6_FinishIdempotent ==
    \A session_id \in DOMAIN scrape_sessions, status \in Terminal,
       error_message \in {None, Some(DB_ERROR)}, t \in now..MaxTime :
        scrape_sessions[session_id].status \in Terminal
            => _complete_scrape_session(scrape_sessions, session_id, status,
                                        error_message, t) = scrape_sessions

\* The phone of Company X as both of its records carry it after normalisation.
PhoneX == sources.fixed[SOURCE_MOCK][1].phone

\* C8: after the one run over the two adapters, whichever is registered first,
\* the store holds exactly one Lead, with the phone of Company X and the email
\* that one of the two records supplied, and the session counts two records,
\* one created and one updated.
C8_EndToEnd ==
    runs[1].pc = "returned"
        => /\ Cardinality({i \in DOMAIN companies : companies[i].phone = PhoneX}) = 1
           /\ Len(companies) = 1
           /\ companies[1].email = Some(E1)
           /\ scrape_sessions[1].status = "completed"
           /\ scrape_sessions[1].total_scraped = 2
           /\ scrape_sessions[1].new_companies = 1
           /\ scrape_sessions[1].updated_companies = 1

\* The run is over and the email came from the adapter registered second: the
\* Lead was created without an email and the update filled it.
C8_Witness ==
    /\ runs[1].pc = "returned"
    /\ Get(sources.fixed[parsers[2]][1], "email") = Some(E1)
    /\ ~TruthyStr(Get(sources.fixed[parsers[1]][1], "email"))
    /\ Len(companies) = 1
    /\ companies[1].email = Some(E1)
    /\ companies[1].address = sources.fixed[parsers[1]][1].address

\* The phone of a raw record as its site wrote it.
raw_phone(record) ==
    IF record.adapter = SOURCE_2GIS THEN record.raw.contacts[1].value
    ELSE record.raw.Phones[1].formatted

C11_FreshnessWins ==
    \A i \in DOMAIN companies, company_data \in AllCompanies,
       f \in {"rating", "reviews_count"} :
        LET merged == _update_company(companies[i], company_data, now) IN
        IF Get(company_data, f) # None
        THEN merged[f] = company_data[f]
        ELSE merged[f] = companies[i][f]

\* The digits of a string, in order.
RECURSIVE digits_of(_)
digits_of(s) ==
    IF s = <<>> THEN <<>>
    ELSE (IF s[1] \in DigitChars THEN <<s[1]>> ELSE <<>>) \o digits_of(Tail(s))

\* The stated branch order, on the digits d of the string s.
phone_by_branch_order(s) ==
    LET d == digits_of(s)
        plus375 == <<"+", "3", "7", "5">>
    IN IF Len(d) >= 3 /\ d[1] = "3" /\ d[2] = "7" /\ d[3] = "5" THEN <<"+">> \o d
       ELSE IF Len(d) >= 2 /\ d[1] = "8" /\ d[2] = "0"
            THEN plus375 \o [i \in 1..(Len(d) - 2) |-> d[i + 2]]
       ELSE IF Len(d) = 9 THEN plus375 \o d
       ELSE s

\* C12 as stated: for every input string normalize_phone returns the string
\* the branch order gives.
C12_EveryString ==
    probe.stage = "normalized" => probe.result = Some(phone_by_branch_order(probe.phone))

\* C12, amended: for every non-empty input string normalize_phone returns the
\* string the branch order gives, for the empty string it returns None, and
\* the four stated inputs give the stated results.
C12_BranchOrder ==
    /\ probe.stage = "normalized"
          => probe.result = IF probe.phone = <<>> THEN None
                            ELSE Some(phone_by_branch_order(probe.phone))
    /\ normalize_phone(Some(P_TRUNK)) = Some(P_NORM)
    /\ normalize_phone(Some(P_INTL)) = Some(P_NORM)
    /\ normalize_phone(Some(P_LOCAL)) = Some(P_NORM)
    /\ normalize_phone(Some(P_SHORT)) = Some(P_SHORT)

\* Nine digits that start with the calling code have been normalised: the
\* calling-code branch was taken, not the nine-digit one.
C12_Witness ==
    /\ probe.stage = "normalized"
    /\ probe.phone = <<"3", "7", "5", "2", "9", "1", "2", "3", "4">>
    /\ probe.result = Some(<<"+", "3", "7", "5", "2", "9", "1", "2", "3", "4">>)

\* C13: every Company row has a name that is neither null nor empty: a record
\* without a usable name never creates a Lead.
C13_NamelessDropped ==
    \A i \in DOMAIN companies : TruthyStr(companies[i].name)

\* C14: once a cancelled run has ended, its session is failed with an error
\* message; it is not left in started.
C14_CancelledRunFails ==
    \A p \in probe :
        runs[p].pc # "awaiting"
            => /\ scrape_sessions[runs[p].session_id].status = "failed"
               /\ TruthyStr(scrape_sessions[runs[p].session_id].error_message)

\* C15: a run raises to its caller only at a session-lifecycle error: either
\* before anything else, when the session cannot be created, or at its end,
\* after every adapter was called for every category, when the session cannot
\* be finalized (it stays started). No error of an adapter or of a save ends
\* the run.
C15_OnlyLifecycleErrors ==
    [][\A p \in Runs :
          (runs[p].pc # "raised" /\ runs'[p].pc = "raised")
          => \/ /\ runs[p].pc = "idle"
                /\ scrape_sessions' = scrape_sessions
             \/ LET run == runs'[p] IN
                /\ run.session_id \in DOMAIN scrape_sessions'
                /\ scrape_sessions'[run.session_id].status = "started"
                /\ \A i \in DOMAIN parsers, k \in DOMAIN run.categories :
                      <<i, run.categories[k]>> \in run.calls]_vars

\* A run has returned although an adapter it called raised, and another run
\* has raised because its session could not be finalized.
C15_Witness ==
    \E p, q \in Runs :
        /\ runs[p].pc = "returned"
        /\ \E call \in runs[p].calls : <<parsers[call[1]], call[2]>> \in sources.down
        /\ runs[q].pc = "raised"
        /\ runs[q].session_id \in DOMAIN scrape_sessions

\* C16: once a session exists, both reads of the most recent session succeed:
\* status_handler shows its status, counters and error message, and
\* get_database_stats returns its status.
C16_LastSessionReadable ==
    \A s \in latest_sessions(scrape_sessions) :
        LET row == scrape_sessions[s]
            shown == status_handler(Some(row))
            stats == get_database_stats(Some(row))
        IN /\ ~shown.raised
           /\ shown.status = row.status
           /\ shown.total_scraped = row.total_scraped
           /\ shown.new_companies = row.new_companies
           /\ shown.updated_companies = row.updated_companies
           /\ shown.error_message = row.error_message
           /\ ~stats.raised
           /\ stats.last_scrape # None
           /\ stats.last_scrape[1].status = row.status

\* C17: the key of a record without a phone is derived from lower-cased,
\* trimmed name and address when both are present, and from source and source
\* id when either is absent; so two records that have only the same name and
\* different source ids get different keys.
C17_NameAndAddressOrSource ==
    probe.stage = "keyed"
        => /\ \A i \in 1..2 :
                 LET c == probe.companies[i][1]
                     name == Get(c, "name")
                     address == Get(c, "address")
                 IN /\ probe.keys[i].ok
                    /\ probe.keys[i].hash =
                          IF TruthyStr(name) /\ TruthyStr(address)
                          THEN md5_hexdigest(join(<<strip(lower(name[1])),
                                                    strip(lower(address[1]))>>))
                          ELSE md5_hexdigest(join(<<c["source"][1], c["source_id"][1]>>))
           /\ LET a == probe.companies[1][1]
                  b == probe.companies[2][1]
              IN (/\ TruthyStr(Get(a, "name"))
                  /\ Get(a, "name") = Get(b, "name")
                  /\ ~TruthyStr(Get(a, "address"))
                  /\ ~TruthyStr(Get(b, "address"))
                  /\ a["source_id"] # b["source_id"])
                 => probe.keys[1].hash # probe.keys[2].hash

\* C18: from every reachable store, every _save_company call (any record, any
\* category name, any session) appends exactly one ScrapeResult row, which
\* links the session to a Lead with the action taken, and that Lead is the
\* only row of companies the call adds or changes.
C18_OneLeadOneRow ==
    \A company_data \in AllCompanies, category_name \in CategoryNames,
       session_id \in DOMAIN scrape_sessions :
        LET r == _save_company(db_now, company_data, category_name, session_id, now)
            row == r.db.scrape_results[Len(r.db.scrape_results)]
        IN /\ ~r.raised
           /\ Len(r.db.scrape_results) = Len(scrape_results) + 1
           /\ SubSeq(r.db.scrape_results, 1, Len(scrape_results)) = scrape_results
           /\ row.session_id = session_id
           /\ row.company_id \in DOMAIN r.db.companies
           /\ row.action \in {"created", "updated"}
           /\ Len(r.db.companies) =
                 Len(companies) + (IF row.action = "created" THEN 1 ELSE 0)
           /\ row.action = "created" => row.company_id = Len(companies) + 1
           /\ \A i \in DOMAIN companies :
                 i # row.company_id => r.db.companies[i] = companies[i]

\* C19: when the first record of a batch cannot be inserted (it has no name,
\* and names are NOT NULL), the run still merges every later record of the
\* batch that has a name, and the session's errors_count counts the error.
C19_ErrorSkipsOneRecord ==
    LET batch == sources.fixed[SOURCE_MOCK] IN
    (runs[1].pc = "returned" /\ Get(batch[1], "name") = None)
        => /\ scrape_sessions[1].errors_count > 0
           /\ \A k \in DOMAIN batch :
                 (k > 1 /\ Get(batch[k], "name") # None)
                    => companies_with_hash(companies,
                                           _generate_dedup_hash(batch[k]).hash) # {}

\* The platforms extract_social_links reports.
Platforms == {"instagram", "facebook", "vk", "telegram"}

\* C20: for each platform the result is the first str value of the payload
\* that is filed under the platform (a later one never replaces it), and null
\* when no value is filed under it.
C20_FirstMatchWins ==
    probe.stage = "extracted"
        => \A platform \in Platforms :
              LET matching == {i \in DOMAIN probe.raw_data :
                                  /\ probe.raw_data[i] # None
                                  /\ platform_of(probe.raw_data[i][1]) = Some(platform)}
              IN probe.socials[1][platform] =
                    IF matching = {} THEN None
                    ELSE probe.raw_data[CHOOSE i \in matching : \A j \in matching : i <= j]

\* The records of a run in the order the claim fixes: adapters in registration
\* order, for each adapter the categories in the given order, for each pair the
\* adapter's batch in the order it was yielded.
RECURSIVE concat(_)
concat(seqs) == IF seqs = <<>> THEN <<>> ELSE seqs[1] \o concat(Tail(seqs))

MergeOrder(categories) ==
    concat([i \in DOMAIN parsers |->
               concat([k \in DOMAIN categories |-> sources.fixed[parsers[i]]])])

\* The positions of MergeOrder whose record has the key of Lead i and carries field f.
Carriers(categories, i, f) ==
    {n \in DOMAIN MergeOrder(categories) :
        /\ _generate_dedup_hash(MergeOrder(categories)[n]).hash = companies[i].dedup_hash
        /\ Get(MergeOrder(categories)[n], f) # None}

\* C21: when the run has returned, every Lead's rating and reviews_count are
\* those of the last record of its key, in the fixed order, that carried them.
C21_LastWriterWins ==
    runs[1].pc = "returned"
        => \A i \in DOMAIN companies, f \in {"rating", "reviews_count"} :
              LET carriers == Carriers(runs[1].categories, i, f) IN
              carriers # {}
                => companies[i][f] =
                      MergeOrder(runs[1].categories)[
                          CHOOSE n \in carriers : \A m \in carriers : m <= n][f]

\* The columns of a Company that _update_company never assigns and the claim names.
CreationFields ==
    {"category_id", "name", "address", "city", "dedup_hash", "is_active", "created_at"}

\* C22: no step of a run changes the category_id, name, address, city,
\* dedup_hash, is_active or created_at of an existing Lead, and an update by
\* any record leaves them as they are, whatever category the record was found under.
C22_CategoryFixed ==
    /\ [](\A i \in DOMAIN companies, source_name \in SourceNames :
            \A company_data \in RecordsOf(source_name), f \in CreationFields :
                _update_company(companies[i], company_data, now)[f] = companies[i][f])
    /\ [][\A i \in DOMAIN companies :
            /\ i \in DOMAIN companies'
            /\ \A f \in CreationFields : companies'[i][f] = companies[i][f]]_vars

\* The run is over, and a Lead created under the first category by the first
\* adapter has been updated by the second adapter's record of the same key,
\* which has another address and was merged under both categories.
C22_Witness ==
    /\ runs[1].pc = "returned"
    /\ \E i \in DOMAIN companies :
          /\ companies[i].category_id = CategoryTable["auto_service"]
          /\ companies[i].address = Some(parsers[1])
          /\ \E n \in DOMAIN sources.fixed[parsers[2]] :
                /\ _generate_dedup_hash(sources.fixed[parsers[2]][n]).hash = companies[i].dedup_hash
                /\ sources.fixed[parsers[2]][n].address # companies[i].address
          /\ Cardinality({k \in DOMAIN scrape_results :
                            /\ scrape_results[k].company_id = i
                            /\ scrape_results[k].action = "updated"}) >= 3

\* C23: when the run has returned, every Lead's source is the source label of
\* the last record of its key that was merged: the adapter that produced it last.
C23_SourceIsLastAdapter ==
    runs[1].pc = "returned"
        => \A i \in DOMAIN companies :
              LET order == MergeOrder(runs[1].categories)
                  sightings == {n \in DOMAIN order :
                                  _generate_dedup_hash(order[n]).hash = companies[i].dedup_hash}
              IN companies[i].source =
                    order[CHOOSE n \in sightings : \A m \in sightings : m <= n].source

\* A run that has ended, by returning or by raising.
Ended == {"returned", "raised"}

NewRows(s, action) ==
    {k \in DOMAIN scrape_results' :
        /\ k \notin DOMAIN scrape_results
        /\ scrape_results'[k].session_id = s
        /\ scrape_results'[k].action = action}

\* C26: from every reachable store, a _save_company call that raises leaves
\* the store as it was, and one that does not raise either changes nothing
\* (no Category row) or writes the Lead, one ScrapeResult row and the session's
\* counters together; and every step of a run changes the three tables
\* together: Leads grow by the `created` rows appended, each session's counters
\* by its rows appended, and no Lead changes when no row is appended.
C26_AllOrNothing ==
    /\ [](\A company_data \in AllCompanies, category_name \in CategoryNames,
             session_id \in 0..(Len(scrape_sessions) + 1) :
            LET r == _save_company(db_now, company_data, category_name, session_id, now)
                h == _generate_dedup_hash(company_data)
            IN /\ r.raised => r.db = db_now
               /\ (~r.raised /\ category_of(category_name) = None) => r.db = db_now
               /\ (~r.raised /\ category_of(category_name) # None)
                    => LET row == r.db.scrape_results[Len(r.db.scrape_results)]
                           before == scrape_sessions[session_id]
                           after == r.db.scrape_sessions[session_id]
                       IN /\ Len(r.db.scrape_results) = Len(scrape_results) + 1
                          /\ row.session_id = session_id
                          /\ r.db.companies[row.company_id].dedup_hash = h.hash
                          /\ r.db.companies[row.company_id].last_scraped_at = now
                          /\ Len(r.db.companies) =
                                Len(companies) + (IF row.action = "created" THEN 1 ELSE 0)
                          /\ after.total_scraped = before.total_scraped + 1
                          /\ after.new_companies + after.updated_companies =
                                before.new_companies + before.updated_companies + 1)
    /\ [][/\ Len(scrape_results') >= Len(scrape_results)
          /\ Len(companies') =
                Len(companies) + Cardinality(UNION {NewRows(s, "created") :
                                                       s \in DOMAIN scrape_sessions'})
          /\ \A s \in DOMAIN scrape_sessions' :
                LET before == IF s \in DOMAIN scrape_sessions THEN scrape_sessions[s]
                              ELSE [total_scraped |-> 0, new_companies |-> 0,
                                    updated_companies |-> 0]
                    after == scrape_sessions'[s]
                IN /\ after.new_companies =
                         before.new_companies + Cardinality(NewRows(s, "created"))
                   /\ after.updated_companies =
                         before.updated_companies + Cardinality(NewRows(s, "updated"))
                   /\ after.total_scraped =
                         before.total_scraped + Cardinality(NewRows(s, "created"))
                                              + Cardinality(NewRows(s, "updated"))
          /\ Len(scrape_results') = Len(scrape_results) => companies' = companies]_vars

\* The run is over: the first record of the batch was merged and the second,
\* which has no name, raised in the insert and left nothing behind.
C26_Witness ==
    /\ runs[1].pc = "returned"
    /\ Get(sources.fixed[SOURCE_MOCK][2], "name") = None
    /\ Get(sources.fixed[SOURCE_MOCK][1], "name") # None
    /\ Len(companies) = 1
    /\ Len(scrape_results) = 1
    /\ scrape_sessions[1].total_scraped = 1
    /\ _generate_dedup_hash(sources.fixed[SOURCE_MOCK][2]).hash # companies[1].dedup_hash

\* The counters of a session's row.
Counters(scrape_session) ==
    <<scrape_session.total_scraped, scrape_session.new_companies,
      scrape_session.updated_companies, scrape_session.errors_count>>

\* C27: from every reachable store, _save_company with a category name that
\* has no row returns without raising and leaves the store as it was; and the
\* step of a run that merges a batch under such a category changes no Lead, no
\* ScrapeResult row and no counter of any session.
C27_UnknownCategoryNoOp ==
    /\ [](\A company_data \in AllCompanies, category_name \in CategoryNames \ DOMAIN CategoryTable,
             session_id \in 0..(Len(scrape_sessions) + 1) :
            LET r == _save_company(db_now, company_data, category_name, session_id, now)
            IN ~r.raised /\ r.db = db_now)
    /\ [][\A p \in Runs :
            (/\ runs[p].pc = "awaiting"
             /\ runs[p].categories[runs[p].category] \notin DOMAIN CategoryTable
             /\ runs'[p] # runs[p])
                => /\ companies' = companies
                   /\ scrape_results' = scrape_results
                   /\ \A s \in DOMAIN scrape_sessions :
                         Counters(scrape_sessions'[s]) = Counters(scrape_sessions[s])]_vars

\* The run is over: the adapter answered both categories with two records that
\* have a name, and only the batch of the category that has a row was merged.
C27_Witness ==
    /\ runs[1].pc = "returned"
    /\ runs[1].calls = {<<1, "auto_service">>, <<1, "pets">>}
    /\ \A n \in DOMAIN sources.fixed[SOURCE_MOCK] :
          Get(sources.fixed[SOURCE_MOCK][n], "name") # None
    /\ Len(scrape_results) = Len(sources.fixed[SOURCE_MOCK])
    /\ scrape_sessions[1].total_scraped = Len(sources.fixed[SOURCE_MOCK])
    /\ \A i \in DOMAIN companies : companies[i].category_id = CategoryTable["auto_service"]

\* Whether the table has an authorized row for the Telegram id.
Authorized(bot_users, telegram_id) ==
    \E i \in DOMAIN bot_users :
        bot_users[i].telegram_id = telegram_id /\ bot_users[i].is_authorized

\* C28: a user becomes authorized only by a successful authorize_user call
\* for that user with the configured password; an authorize_user call with
\* another password, or for a user who is authorized already, fails and
\* leaves the table as it was; and an authorized user stays authorized.
C28_OnlyByPassword ==
    [][/\ \A telegram_id \in TelegramIds :
            /\ (Authorized(probe'.bot_users, telegram_id)
                /\ ~Authorized(probe.bot_users, telegram_id))
                  => /\ probe'.last[1].op = "authorize_user"
                     /\ probe'.last[1].telegram_id = telegram_id
                     /\ probe'.last[1].password = probe.BOT_PASSWORD
                     /\ probe'.last[1].success
            /\ Authorized(probe.bot_users, telegram_id)
                  => Authorized(probe'.bot_users, telegram_id)
       /\ (probe'.last # probe.last /\ probe'.last[1].op = "authorize_user")
            => /\ (\/ probe'.last[1].password # probe.BOT_PASSWORD
                   \/ Authorized(probe.bot_users, probe'.last[1].telegram_id))
                  => /\ ~probe'.last[1].success
                     /\ probe'.bot_users = probe.bot_users
               /\ probe'.last[1].success
                  => Authorized(probe'.bot_users, probe'.last[1].telegram_id)]_vars

\* Both users are authorized, the one whose row was there and the one whose
\* row the call created, and the last call, for an authorized user with the
\* configured password, has failed.
C28_Witness ==
    /\ Len(probe.bot_users) = 2
    /\ \A i \in DOMAIN probe.bot_users : probe.bot_users[i].is_authorized
    /\ probe.bot_users[1].username = Some(<<"a">>)
    /\ probe.BOT_PASSWORD = PW
    /\ probe.last # None
    /\ probe.last[1].op = "authorize_user"
    /\ probe.last[1].password = PW
    /\ ~probe.last[1].success

\* C29: for every non-empty string, normalizing the result of normalize_phone
\* again gives the same result, and a record with the phone normalized twice
\* has the key of the record with the phone normalized once.
C29_Idempotent ==
    (probe.stage = "renormalized" /\ probe.phone # <<>>)
        => /\ probe.stored # None
           /\ probe.result = probe.stored
           /\ _generate_dedup_hash([name |-> Some(COMPANY_X), phone |-> probe.result]) =
                 _generate_dedup_hash([name |-> Some(COMPANY_X), phone |-> probe.stored])

\* A string of nine digits among other characters has been normalized twice:
\* the first call rewrote it and the second left the result alone.
C29_Witness ==
    /\ probe.stage = "renormalized"
    /\ Len(digits_of(probe.phone)) = 9
    /\ Len(probe.phone) > 9
    /\ probe.stored # Some(probe.phone)
    /\ probe.result = probe.stored

\* The Telegram ids of the authorized rows of the table, in table order.
RECURSIVE AuthorizedIds(_)
AuthorizedIds(bot_users) ==
    IF bot_users = <<>> THEN <<>>
    ELSE (IF bot_users[1].is_authorized THEN <<bot_users[1].telegram_id>> ELSE <<>>)
         \o AuthorizedIds(Tail(bot_users))

====
